---- MODULE Spec2Model ----
(***************************************************************************)
(* POGO FS of pog_os (src/src/fs.rs) on one ATA drive (src/src/ata.rs).    *)
(* The disk is modelled byte for byte: a sector is a sequence of 512       *)
(* bytes, and directory tables and data sectors are the two readings of    *)
(* such a sector that fs.rs makes.  Offsets are the 0-based offsets of the *)
(* source; sequences are 1-based, so offset o is element o + 1.            *)
(***************************************************************************)
EXTENDS Integers, Sequences, FiniteSets, TLC

VARIABLES
    DRIVES,       \* ata::DRIVES: the drives that identified, each with its blocks
    mounted,      \* FILESYSTEM is Some(..)
    drive_index,  \* FileSystem.drive_index
    entry_sector, \* FileSystem.entry_sector
    entry_table,  \* FileSystem.entry_table, the in-memory copy of the root table
    PATH,         \* conhost::PATH, the directory the shell is in
    panicked,     \* the panic handler has run: the kernel idles forever
    calls,        \* how many calls the shell has made
    last,         \* the last filesystem call: its arguments and what it returned
    made,         \* per directory path: entries created in it while none was deleted
    pc,           \* where the main line is
    enabled,      \* the interrupt flag of the main line
    locks,        \* per spin::Mutex: "free", or who holds it, "main" or "irq"
    irq,          \* the interrupt handler that is running, if one is
    requesting,   \* *STDIN.requesting
    chars,        \* *STDIN.chars, each char by its class
    chars_len,    \* get_char: chars_len
    new_len,      \* get_char: new_len
    new_char,     \* get_str: new_char
    result_len,   \* get_str: result.len()
    halted,       \* the CPU is in hlt
    boot,         \* lib::init: the steps it has completed, in order
    TICKS,        \* time::TICKS
    timer_irqs,   \* how many timer interrupts have been handled
    ata,          \* the ATA bus: the command in flight and the device answering it
    rtc,          \* the CMOS RTC registers 0x00, 0x02, 0x04, 0x06, 0x07, 0x08, 0x09, 0x0B
    now           \* what the last DateTime::get returned

\* the filesystem, the drives and the shell's path
fsvars == <<DRIVES, mounted, drive_index, entry_sector, entry_table, PATH, panicked,
            calls, last, made>>

\* the CPU, the locks and the standard input
machine == <<pc, enabled, locks, irq, requesting, chars, chars_len, new_len, new_char,
             result_len, halted>>

\* the devices besides the drives' blocks
devices == <<ata, rtc, now>>

\* the boot log, the tick counter and the devices
platform == <<boot, TICKS, timer_irqs, ata, rtc, now>>

vars == <<DRIVES, mounted, drive_index, entry_sector, entry_table, PATH, panicked,
          calls, last, made, pc, enabled, locks, irq, requesting, chars, chars_len,
          new_len, new_char, result_len, halted, boot, TICKS, timer_irqs, ata, rtc, now>>

----------------------------------------------------------------------------
(* Bounds of the model *)

\* Drive.sectors of the drive
Sectors == 6
\* how many calls the shell makes
MaxCalls == 5
\* Drive.sectors of the drive, where a directory is filled
GrowSectors == 24
\* how many entries are made in the directory that is filled
GrowEntries == 17
\* Drive.sectors of the drive, where forged contents are written
ForgeSectors == 5
\* Drive.sectors of the smallest drive the kernel boots with
BootSectors == 3
\* the most entries the codec runs put in the table
CodecEntries == 2
\* sectors of the drive of the codec runs: one data sector and the root table
CodecSectors == 2
\* the most chars the keyboard runs leave in the standard input
MaxChars == 3
\* the most timer interrupts of the keyboard runs
MaxTicks == 2

\* the reads and writes of one run of the bus
MaxCommands == 1

\* the keys the user types at the prompts of one boot
MaxKeys == 4

\* the drive of the runs that fill the root directory, and the files written
RootSectors == 16
RootEntries == 10

\* the drive and the calls of the runs that call the FileSystem directly
ApiSectors == 5
ApiCalls == 5

\* the drive of the runs with long names, and the calls made on it
NameSectors == 8

NameCalls == 3

\* the hours of a day and the years of a century the clock counts
HoursPerDay == 24
YearsPerCentury == 100

\* identify_drive: `if i == 256`, the polls for RDY before it gives up
PollLimit == 256
\* [u16; 256], the words of a sector and of an identify block
SectorWords == 256

(* Layout constants of the source *)

SectorSize == 512
PayloadSize == 506
SlotsPerTable == 8
SlotSize == 63
NameSize == 58

Magic == <<80, 79, 71, 79>>  \* "POGO"

----------------------------------------------------------------------------
(* Option<T> *)

None == <<>>
Some(x) == <<x>>
Unwrap(o) == o[1]

(* Bytes *)

Zeros(n) == SubSeq([i \in 1..SectorSize |-> 0], 1, n)

ZeroSector == Zeros(SectorSize)

\* the four bytes of a u32 written least significant byte first
Le32(a) == << a % 256, (a \div 256) % 256, (a \div 65536) % 256, (a \div 16777216) % 256 >>

\* u32.get_bits(24..32), (16..24), (8..16), (0..8): most significant byte first
Be32(a) == << (a \div 16777216) % 256, (a \div 65536) % 256, (a \div 256) % 256, a % 256 >>

Be16(a) == << (a \div 256) % 256, a % 256 >>

\* (buf[o] as u32) << 24 | (buf[o+1] as u32) << 16 | (buf[o+2] as u32) << 8 | buf[o+3].
\* A u32 of 2^31 or more is held as that value minus 2^32 (the same 32 bits
\* read as two's complement), which Be32 turns back into the same bytes.
ReadBe32(buf, o) ==
    (IF buf[o + 1] >= 128 THEN buf[o + 1] - 256 ELSE buf[o + 1]) * 16777216
    + buf[o + 2] * 65536 + buf[o + 3] * 256 + buf[o + 4]

ReadBe16(buf, o) == buf[o + 1] * 256 + buf[o + 2]

\* buf[off + i] = bytes[i] for every i; the caller has checked the bounds
PutBytes(buf, off, bytes) ==
    SubSeq(buf, 1, off) \o bytes \o SubSeq(buf, off + Len(bytes) + 1, Len(buf))

\* String::bytes(): the UTF-8 encoding of a string of chars below U+0800
RECURSIVE Utf8(_)
Utf8(s) ==
    IF s = <<>> THEN <<>>
    ELSE (IF Head(s) < 128 THEN << Head(s) >>
          ELSE << 192 + (Head(s) \div 64), 128 + (Head(s) % 64) >>) \o Utf8(Tail(s))

\* the chars of a name field up to its first NUL (char::from_u32 of each byte)
RECURSIVE NameOf(_)
NameOf(bytes) ==
    IF bytes = <<>> \/ Head(bytes) = 0 THEN <<>>
    ELSE << Head(bytes) >> \o NameOf(Tail(bytes))

----------------------------------------------------------------------------
(* ata.rs: Drive *)

\* Drive::read: the 512 bytes of a block
Drive_read(d, block) == d[block]

\* Drive::write
Drive_write(d, block, buf) == [d EXCEPT ![block] = buf]

RECURSIVE ScanFree_to_zero(_, _)
\* a scan that goes on to sector 0
ScanFree_to_zero(d, current_sector) ==
    IF current_sector >= 0
    THEN IF Drive_read(d, current_sector) = ZeroSector
         THEN Some(current_sector)
         ELSE ScanFree_to_zero(d, current_sector - 1)
    ELSE None

\* The scan of find_available_sector from current_sector downwards
RECURSIVE ScanFree(_, _)
ScanFree(d, current_sector) ==
    IF current_sector > 0
    THEN IF Drive_read(d, current_sector) = ZeroSector
         THEN Some(current_sector)
         ELSE ScanFree(d, current_sector - 1)
    ELSE None

\* Drive.sectors
DriveSectors(d) == Cardinality(DOMAIN d)

find_available_sector(d) == ScanFree(d, DriveSectors(d) - 1)

\* A drive of DRIVES: Drive.drive_index, its position on the bus, and the
\* blocks 0 .. sectors-1 of the device, each 512 bytes
Drive(index, blocks) == [drive_index |-> index, blocks |-> blocks]

\* &DRIVES.lock()[self.drive_index as usize]: the blocks of the drive of the mount
disk == DRIVES[drive_index + 1].blocks

\* DRIVES after the calls of a filesystem operation left the blocks d on that drive
DrivesWith(d) == [DRIVES EXCEPT ![drive_index + 1].blocks = d]

----------------------------------------------------------------------------
(* fs.rs: FileTableSector.  A table in memory is                           *)
(* [addr, continuation_addr, files, is_deleted]; an entry of files is      *)
(* [kind, name, entry_addr] with kind "File" or "Dir".  directory_name is  *)
(* never read by the code that decides anything and is left out.           *)

\* The entries of slots i .. 7 of a table sector, in slot order
RECURSIVE LoadSlots(_, _)
LoadSlots(buf, i) ==
    IF i = SlotsPerTable THEN <<>>
    ELSE LET base == 4 + i * SlotSize
             file_addr == ReadBe32(buf, base + 59)
             entry == [kind |-> IF buf[base + NameSize + 1] = 0 THEN "File" ELSE "Dir",
                       name |-> NameOf(SubSeq(buf, base + 1, base + NameSize)),
                       entry_addr |-> file_addr]
         IN (IF file_addr # 0 THEN << entry >> ELSE <<>>) \o LoadSlots(buf, i + 1)

\* The parse of a 512-byte buffer as a table at addr
ParseTable(addr, buf) ==
    LET continuation_addr == ReadBe32(buf, 0)
    IN [addr |-> addr,
        continuation_addr |-> IF continuation_addr # 0 THEN Some(continuation_addr) ELSE None,
        files |-> LoadSlots(buf, 0),
        is_deleted |-> FALSE]

FileTableSector_load(d, addr) == ParseTable(addr, Drive_read(d, addr))

\* The buffer FileTableSector::new writes
NewTableBuf == PutBytes(ZeroSector, 508, Magic)

\* FileTableSector::new: the disk after it, and the table it returns
FileTableSector_new_disk(d, new_addr) == Drive_write(d, new_addr, NewTableBuf)

FileTableSector_new(new_addr) ==
    [addr |-> new_addr, continuation_addr |-> None, files |-> <<>>, is_deleted |-> FALSE]

\* the loop of update_physical_drive over self.files, from byte `index`
RECURSIVE WriteSlots(_, _, _)
WriteSlots(buf, files, index) ==
    IF files = <<>> THEN buf
    ELSE LET f == Head(files)
             b1 == PutBytes(buf, index, Utf8(f.name))
             b2 == IF f.kind = "Dir" THEN PutBytes(b1, index + 58, << 1 >>) ELSE b1
             b3 == PutBytes(b2, index + 59, Be32(f.entry_addr))
         IN WriteSlots(b3, Tail(files), index + SlotSize)

\* buf[index + current_index] is out of bounds for some name byte: the write panics
TableWritePanics(t) ==
    \E k \in 1..Len(t.files) :
        4 + (k - 1) * SlotSize + Len(Utf8(t.files[k].name)) > SectorSize

\* The buffer update_physical_drive builds
TableBuf(t) ==
    LET b0 == PutBytes(ZeroSector, 0,
                       IF t.continuation_addr # None
                       THEN Be32(Unwrap(t.continuation_addr)) ELSE << 0, 0, 0, 0 >>)
        b1 == WriteSlots(b0, t.files, 4)
    IN IF ~t.is_deleted THEN PutBytes(b1, 508, Magic) ELSE b1

\* FileTableSector::update_physical_drive: the disk after it
update_physical_drive(d, t) == Drive_write(d, t.addr, TableBuf(t))

\* FileTableSector::get_file
get_file_in(t, name) ==
    LET hits == SelectSeq(t.files, LAMBDA el : el.kind = "File" /\ el.name = name)
    IN IF hits # <<>> THEN Some(Head(hits)) ELSE None

\* FileTableSector::get_dir
get_dir_in(t, name) ==
    LET hits == SelectSeq(t.files, LAMBDA el : el.kind = "Dir" /\ el.name = name)
    IN IF hits # <<>> THEN Some(Head(hits)) ELSE None

\* FileTableSector::contains_object
contains_object(t, name) == \E k \in 1..Len(t.files) : t.files[k].name = name

----------------------------------------------------------------------------
(* fs.rs: DataSector, in memory [addr, continuation_addr, size, data]      *)

ParseData(addr, buf) ==
    LET continuation_addr == ReadBe32(buf, 0)
    IN [addr |-> addr,
        continuation_addr |-> IF continuation_addr # 0 THEN Some(continuation_addr) ELSE None,
        size |-> ReadBe16(buf, 4),
        data |-> SubSeq(buf, 7, SectorSize)]

DataSector_load(d, addr) == ParseData(addr, Drive_read(d, addr))

\* DataSector::new: the disk after it (bytes is at most 506 long)
DataSector_new_disk(d, addr, bytes) ==
    Drive_write(d, addr,
        PutBytes(PutBytes(ZeroSector, 4, Be16(Len(bytes))), 6, bytes))

\* DataSector::update_physical_drive: every byte of the sector is rewritten
DataBuf(s) ==
    (IF s.continuation_addr # None THEN Be32(Unwrap(s.continuation_addr)) ELSE << 0, 0, 0, 0 >>)
    \o Be16(s.size) \o s.data

DataSector_update(d, s) == Drive_write(d, s.addr, DataBuf(s))

\* a remove that clears the size and the continuation but leaves the data
DataSector_remove_keeps_data(d, s) ==
    DataSector_update(d, [s EXCEPT !.continuation_addr = None, !.size = 0])

\* DataSector::remove
DataSector_remove(d, s) ==
    DataSector_update(d, [s EXCEPT !.continuation_addr = None,
                                   !.data = Zeros(PayloadSize), !.size = 0])

----------------------------------------------------------------------------
(* fs.rs: FileSystem lookups.  d is the disk, et is self.entry_table.      *)

\* get_table_with_object, the inner while: the first table of the chain from
\* current_table that holds an object (file or directory) named obj
RECURSIVE SeekObject(_, _, _)
SeekObject(d, current_table, obj) ==
    IF contains_object(current_table, obj) THEN Some(current_table)
    ELSE IF current_table.continuation_addr # None
         THEN SeekObject(d, FileTableSector_load(d, Unwrap(current_table.continuation_addr)), obj)
         ELSE None

\* get_table_with_object, the for loop from component `index` (1-based) on
RECURSIVE TableWithObject(_, _, _, _)
TableWithObject(d, current_table, path, index) ==
    IF index > Len(path) THEN None
    ELSE LET found == SeekObject(d, current_table, path[index])
         IN IF found = None THEN None
            ELSE IF index # Len(path)
                 THEN LET new_dir == get_dir_in(Unwrap(found), path[index])
                      IN IF new_dir # None
                         THEN TableWithObject(d,
                                  FileTableSector_load(d, Unwrap(new_dir).entry_addr),
                                  path, index + 1)
                         ELSE found
                 ELSE found

get_table_with_object(d, et, path) == TableWithObject(d, et, path, 1)

\* FileSystem::get_file: Some(entry) or None
get_file(d, et, path) ==
    LET table == get_table_with_object(d, et, path)
    IN IF table # None THEN get_file_in(Unwrap(table), path[Len(path)]) ELSE None

\* FileSystem::get_dir: Some(entry) or None
get_dir(d, et, path) ==
    LET table == get_table_with_object(d, et, path)
    IN IF table # None THEN get_dir_in(Unwrap(table), path[Len(path)]) ELSE None

\* File::read from a loaded sector on: [panic, bytes].  The slice
\* data[0..size] panics when size exceeds the 506 bytes of data.
RECURSIVE ReadChain(_, _)
ReadChain(d, current_sector) ==
    IF current_sector.size > PayloadSize THEN [panic |-> TRUE, bytes |-> <<>>]
    ELSE LET here == SubSeq(current_sector.data, 1, current_sector.size)
         IN IF current_sector.continuation_addr # None
            THEN LET rest == ReadChain(d,
                                DataSector_load(d, Unwrap(current_sector.continuation_addr)))
                 IN [panic |-> rest.panic, bytes |-> here \o rest.bytes]
            ELSE [panic |-> FALSE, bytes |-> here]

File_read(d, file) == ReadChain(d, DataSector_load(d, file.entry_addr))

\* write_file / create_dir / list_files, the inner while of the walk: the
\* first table of the chain that holds a directory named dir.
\* entry: `table` still borrows self.entry_table.
RECURSIVE SeekDir(_, _, _, _)
SeekDir(d, table, entry, dir) ==
    IF get_dir_in(table, dir) # None THEN Some([table |-> table, entry |-> entry])
    ELSE IF table.continuation_addr # None
         THEN SeekDir(d, FileTableSector_load(d, Unwrap(table.continuation_addr)), FALSE, dir)
         ELSE None

\* write_file / create_dir / list_files, the for loop over the directories of the path
RECURSIVE WalkDirs(_, _, _, _)
WalkDirs(d, table, entry, dirs) ==
    IF dirs = <<>> THEN Some([table |-> table, entry |-> entry])
    ELSE LET at == SeekDir(d, table, entry, Head(dirs))
         IN IF at = None THEN None
            ELSE WalkDirs(d,
                     FileTableSector_load(d,
                         Unwrap(get_dir_in(Unwrap(at).table, Head(dirs))).entry_addr),
                     FALSE, Tail(dirs))

\* the names of the slots of a table with nothing added to them
TableNames_bare(t) == [k \in 1..Len(t.files) |-> t.files[k].name]

\* The names list_files yields for one table
TableNames(t) ==
    [k \in 1..Len(t.files) |->
        IF t.files[k].kind = "File" THEN t.files[k].name ELSE t.files[k].name \o << 47 >>]

\* list_files, the names of the continuation tables from next_addr on
RECURSIVE ListRest(_, _)
ListRest(d, next_addr) ==
    LET table == FileTableSector_load(d, next_addr)
    IN TableNames(table) \o
       (IF table.continuation_addr # None
        THEN ListRest(d, Unwrap(table.continuation_addr)) ELSE <<>>)

\* FileSystem::list_files: Some(names) or None
list_files(d, et, path) ==
    LET at == WalkDirs(d, et, TRUE, path)
    IN IF at = None THEN None
       ELSE LET table == Unwrap(at).table
            IN Some(TableNames(table) \o
                    (IF table.continuation_addr # None
                     THEN ListRest(d, Unwrap(table.continuation_addr)) ELSE <<>>))

----------------------------------------------------------------------------
(* fs.rs: FileSystem operations.  Each returns the disk and entry_table it *)
(* leaves and its exit code; "Panic" is a panic of the kernel (an unwrap   *)
(* of None, a failed assert, an index out of bounds), with the disk as the *)
(* writes made before it left it.                                          *)

Min(a, b) == IF a < b THEN a ELSE b

\* A table found by the walk: [disk, entry_table, table, entry, panic]
Slot(d, et, table, entry, panic) ==
    [disk |-> d, entry_table |-> et, table |-> table, entry |-> entry, panic |-> panic]

RECURSIVE FreeSlotTable(_, _, _, _)

\* table.set_continuation(new_sector); FileTableSector::new(new_sector, ..)
LinkedTable(d, et, linked, entry) ==
    IF TableWritePanics(linked) THEN Slot(d, et, linked, entry, TRUE)
    ELSE FreeSlotTable(
             FileTableSector_new_disk(update_physical_drive(d, linked),
                                      Unwrap(linked.continuation_addr)),
             IF entry THEN linked ELSE et,
             FileTableSector_new(Unwrap(linked.continuation_addr)), FALSE)

\* let new_sector = drive.find_available_sector().unwrap()
LinkTable(d, et, table, entry, new_sector) ==
    IF new_sector = None THEN Slot(d, et, table, entry, TRUE)
    ELSE LinkedTable(d, et, [table EXCEPT !.continuation_addr = new_sector], entry)

\* write_file / create_dir: `while table.files.len() == 8`, which ends at a
\* table with a free slot, linking and initialising a new sector if needed
FreeSlotTable(d, et, table, entry) ==
    IF Len(table.files) # SlotsPerTable THEN Slot(d, et, table, entry, FALSE)
    ELSE IF table.continuation_addr # None
    THEN FreeSlotTable(d, et,
             FileTableSector_load(d, Unwrap(table.continuation_addr)), FALSE)
    ELSE LinkTable(d, et, table, entry, find_available_sector(d))

\* FileTableSector::add_file / add_dir: the table after the push
add_entry(t, kind, name, addr) ==
    [t EXCEPT !.files = Append(@, [kind |-> kind, name |-> name, entry_addr |-> addr])]

\* add_file / add_dir panic: the assert, or the write of the table
AddPanics(t, kind, name, addr) ==
    Len(t.files) >= SlotsPerTable \/ TableWritePanics(add_entry(t, kind, name, addr))

\* a chunk cut at 505 bytes
NextBytes_short(bytes, written_bytes) ==
    SubSeq(bytes, written_bytes + 1, Min(written_bytes + PayloadSize - 1, Len(bytes)))

\* bytes.clone(), drain(..written_bytes), truncate(506)
NextBytes(bytes, written_bytes) ==
    SubSeq(bytes, written_bytes + 1, Min(written_bytes + PayloadSize, Len(bytes)))

RECURSIVE WriteChain(_, _, _, _)

\* DataSector::new(extension_file_sector, drive, bytes_to_write), and the loop again
ExtendedChain(d, bytes, written_bytes, extension_file_sector) ==
    WriteChain(d, bytes, written_bytes, DataSector_load(d, extension_file_sector))

\* the body of the loop once extension_file_sector is known
ExtendChain(d, bytes, written_bytes, current_sector, extension_file_sector) ==
    IF extension_file_sector = None THEN [disk |-> d, panic |-> TRUE]
    ELSE ExtendedChain(
             DataSector_new_disk(
                 DataSector_update(d, [current_sector EXCEPT
                                          !.continuation_addr = extension_file_sector]),
                 Unwrap(extension_file_sector), NextBytes(bytes, written_bytes)),
             bytes, Min(written_bytes + PayloadSize, Len(bytes)),
             Unwrap(extension_file_sector))

\* write_file, `while written_bytes < bytes.len()`: [disk, panic]
WriteChain(d, bytes, written_bytes, current_sector) ==
    IF written_bytes < Len(bytes)
    THEN ExtendChain(d, bytes, written_bytes, current_sector, find_available_sector(d))
    ELSE [disk |-> d, panic |-> FALSE]

\* What a call leaves when it stops early
Outcome(d, et, result) ==
    [disk |-> d, entry_table |-> et, result |-> result,
     new_file_sector |-> 0, slot_table |-> 0, slot_disk |-> d]

\* a write_file / create_dir that adds the slot to a copy of the root table
\* and leaves the table of the mount as it was
Created_stale(d, slot, added, result, slot_disk) ==
    [disk |-> d,
     entry_table |-> slot.entry_table,
     result |-> result,
     new_file_sector |-> added.files[Len(added.files)].entry_addr,
     slot_table |-> added.addr,
     slot_disk |-> slot_disk]

\* What write_file / create_dir leave once the slot is written: new_file_sector
\* is the head allocated, slot_table the table that got the slot and slot_disk
\* the disk right after add_file / add_dir
Created(d, slot, added, result, slot_disk) ==
    [disk |-> d,
     entry_table |-> IF slot.entry THEN added ELSE slot.entry_table,
     result |-> result,
     new_file_sector |-> added.files[Len(added.files)].entry_addr,
     slot_table |-> added.addr,
     slot_disk |-> slot_disk]

\* write_file, the end: chain is what the loop over the rest of the bytes left
WriteFileChain(slot, added, slot_disk, chain) ==
    Created(chain.disk, slot, added, IF chain.panic THEN "Panic" ELSE "Success", slot_disk)

\* write_file from `while written_bytes < bytes.len()` on; d is the disk after
\* add_file, first the disk after DataSector::new(new_file_sector, ..)
WriteFileData(d, slot, added, bytes, new_file_sector, first) ==
    WriteFileChain(slot, added, d,
        WriteChain(first, bytes, Min(PayloadSize, Len(bytes)),
                   DataSector_load(first, new_file_sector)))

\* write_file from table.add_file(..) on
WriteFileAdded(slot, added, bytes, new_file_sector, d) ==
    WriteFileData(d, slot, added, bytes, new_file_sector,
        DataSector_new_disk(d, new_file_sector, NextBytes(bytes, 0)))

\* write_file from `let new_file_sector = ..find_available_sector().unwrap()` on
WriteFileHead(slot, name, bytes, new_file_sector) ==
    IF new_file_sector = None THEN Outcome(slot.disk, slot.entry_table, "Panic")
    ELSE IF AddPanics(slot.table, "File", name, Unwrap(new_file_sector))
    THEN Outcome(slot.disk, slot.entry_table, "Panic")
    ELSE WriteFileAdded(slot, add_entry(slot.table, "File", name, Unwrap(new_file_sector)),
             bytes, Unwrap(new_file_sector),
             update_physical_drive(slot.disk,
                 add_entry(slot.table, "File", name, Unwrap(new_file_sector))))

\* write_file from `while table.files.len() == 8` on
WriteFileSlot(name, bytes, slot) ==
    IF slot.panic THEN Outcome(slot.disk, slot.entry_table, "Panic")
    ELSE WriteFileHead(slot, name, bytes, find_available_sector(slot.disk))

\* a write_file that puts an empty table into sector 1 before it reports a
\* missing directory
WriteFileAt_scribbles(d, et, path, bytes, at) ==
    IF at = None THEN Outcome(FileTableSector_new_disk(d, 1), et, "NotFound")
    ELSE WriteFileSlot(path[Len(path)], bytes,
             FreeSlotTable(d, et, Unwrap(at).table, Unwrap(at).entry))

\* write_file after the walk over the directories of the path
WriteFileAt(d, et, path, bytes, at) ==
    IF at = None THEN Outcome(d, et, "NotFound")
    ELSE WriteFileSlot(path[Len(path)], bytes,
             FreeSlotTable(d, et, Unwrap(at).table, Unwrap(at).entry))

\* FileSystem::write_file
write_file(d, et, path, bytes) ==
    WriteFileAt(d, et, path, bytes, WalkDirs(d, et, TRUE, SubSeq(path, 1, Len(path) - 1)))

\* create_dir from table.add_dir(..) on; d is the disk after add_dir
CreateDirAdded(slot, added, new_file_sector, d) ==
    Created(FileTableSector_new_disk(d, new_file_sector), slot, added, "Success", d)

\* create_dir from `let new_file_sector = ..find_available_sector().unwrap()` on
CreateDirHead(slot, name, new_file_sector) ==
    IF new_file_sector = None THEN Outcome(slot.disk, slot.entry_table, "Panic")
    ELSE IF AddPanics(slot.table, "Dir", name, Unwrap(new_file_sector))
    THEN Outcome(slot.disk, slot.entry_table, "Panic")
    ELSE CreateDirAdded(slot, add_entry(slot.table, "Dir", name, Unwrap(new_file_sector)),
             Unwrap(new_file_sector),
             update_physical_drive(slot.disk,
                 add_entry(slot.table, "Dir", name, Unwrap(new_file_sector))))

\* create_dir from `while table.files.len() == 8` on
CreateDirSlot(name, slot) ==
    IF slot.panic THEN Outcome(slot.disk, slot.entry_table, "Panic")
    ELSE CreateDirHead(slot, name, find_available_sector(slot.disk))

\* create_dir after the walk over the directories of the path
CreateDirAt(d, et, path, at) ==
    IF at = None THEN Outcome(d, et, "NotFound")
    ELSE CreateDirSlot(path[Len(path)],
             FreeSlotTable(d, et, Unwrap(at).table, Unwrap(at).entry))

\* FileSystem::create_dir
create_dir(d, et, path) ==
    CreateDirAt(d, et, path, WalkDirs(d, et, TRUE, SubSeq(path, 1, Len(path) - 1)))

\* delete_file, the first loop: the sectors of the data chain, as loaded
RECURSIVE DataChain(_, _)
DataChain(d, current_sector) ==
    << current_sector >> \o
    (IF current_sector.continuation_addr # None
     THEN DataChain(d, DataSector_load(d, Unwrap(current_sector.continuation_addr)))
     ELSE <<>>)

\* delete_file, `for mut sector in sectors_to_remove`
RECURSIVE RemoveData(_, _)
RemoveData(d, sectors_to_remove) ==
    IF sectors_to_remove = <<>> THEN d
    ELSE RemoveData(DataSector_remove(d, Head(sectors_to_remove)), Tail(sectors_to_remove))

\* delete_dir, the loop: the tables of the chain, as loaded
RECURSIVE TableChain(_, _)
TableChain(d, current_sector) ==
    << current_sector >> \o
    (IF current_sector.continuation_addr # None
     THEN TableChain(d, FileTableSector_load(d, Unwrap(current_sector.continuation_addr)))
     ELSE <<>>)

\* FileTableSector::remove
FileTableSector_remove(d, t) ==
    update_physical_drive(d, [t EXCEPT !.continuation_addr = None, !.files = <<>>,
                                       !.is_deleted = TRUE])

\* delete_dir, `for mut sector in sectors_to_remove`
RECURSIVE RemoveTables(_, _)
RemoveTables(d, sectors_to_remove) ==
    IF sectors_to_remove = <<>> THEN d
    ELSE RemoveTables(FileTableSector_remove(d, Head(sectors_to_remove)),
                      Tail(sectors_to_remove))

\* files.iter().position(..): the first entry of the kind with the address, or 0
Position(files, kind, addr) ==
    IF \E k \in 1..Len(files) : files[k].kind = kind /\ files[k].entry_addr = addr
    THEN CHOOSE k \in 1..Len(files) :
             /\ files[k].kind = kind /\ files[k].entry_addr = addr
             /\ \A j \in 1..(k - 1) : ~(files[j].kind = kind /\ files[j].entry_addr = addr)
    ELSE 0

\* Vec::remove(index)
RemoveAt(files, index) == SubSeq(files, 1, index - 1) \o SubSeq(files, index + 1, Len(files))

\* file_table_sector.update_physical_drive(); self.entry_table = load(entry_sector)
DropWritten(d, es) == Outcome(d, FileTableSector_load(d, es), "Success")

\* file_table_sector.files.remove(remove_index)
DropKept(d, et, es, kept) ==
    IF TableWritePanics(kept) THEN Outcome(d, et, "Panic")
    ELSE DropWritten(update_physical_drive(d, kept), es)

\* .position(..).unwrap()
DropAt(d, et, es, file_table_sector, remove_index) ==
    IF remove_index = 0 THEN Outcome(d, et, "Panic")
    ELSE DropKept(d, et, es, [file_table_sector EXCEPT !.files = RemoveAt(@, remove_index)])

\* self.get_table_with_object(path).unwrap()
DropIn(d, et, es, kind, addr, file_table_sector) ==
    IF file_table_sector = None THEN Outcome(d, et, "Panic")
    ELSE DropAt(d, et, es, Unwrap(file_table_sector),
                Position(Unwrap(file_table_sector).files, kind, addr))

\* delete_file / delete_dir, the common end: drop the slot of the entry from
\* the table get_table_with_object finds, write it, reload entry_table
DropSlot(d, et, es, path, kind, addr) ==
    DropIn(d, et, es, kind, addr, get_table_with_object(d, et, path))

\* delete_file once get_file has answered
DeleteFileOf(d, et, es, path, file) ==
    IF file = None THEN Outcome(d, et, "NotFound")
    ELSE DropSlot(RemoveData(d, DataChain(d, DataSector_load(d, Unwrap(file).entry_addr))),
                  et, es, path, "File", Unwrap(file).entry_addr)

\* FileSystem::delete_file (es is self.entry_sector)
delete_file(d, et, es, path) == DeleteFileOf(d, et, es, path, get_file(d, et, path))

\* delete_dir once the head table of the directory is loaded
DeleteDirFrom(d, et, es, path, addr, current_sector) ==
    IF Len(current_sector.files) # 0 THEN Outcome(d, et, "NotEmpty")
    ELSE DropSlot(RemoveTables(d, TableChain(d, current_sector)),
                  et, es, path, "Dir", addr)

\* delete_dir once get_dir has answered
DeleteDirOf(d, et, es, path, dir) ==
    IF dir = None THEN Outcome(d, et, "NotFound")
    ELSE DeleteDirFrom(d, et, es, path, Unwrap(dir).entry_addr,
                       FileTableSector_load(d, Unwrap(dir).entry_addr))

\* FileSystem::delete_dir
delete_dir(d, et, es, path) == DeleteDirOf(d, et, es, path, get_dir(d, et, path))

----------------------------------------------------------------------------
(* Inputs of the calls *)

\* file and directory names: "a", "b"
Names == { << 97 >>, << 98 >> }

\* the name of the k-th file a user makes in a directory: "fa", "fb", ...
NameOfIndex(k) == << 102, 97 + k >>

\* a content of len non-zero bytes that differs from position to position
Content(len) == [i \in 1..len |-> (i % 255) + 1]

----------------------------------------------------------------------------
(* What the claims read of a state *)

ParentPath(path) == SubSeq(path, 1, Len(path) - 1)

LastName(path) == path[Len(path)]

\* The directory of a path exists: the root, or a directory get_dir finds
DirExists(d, et, path) == path = <<>> \/ get_dir(d, et, path) # None

\* The table sectors, as loaded, of the chain of an existing directory
DirTables(d, et, es, path) ==
    TableChain(d, FileTableSector_load(d,
        IF path = <<>> THEN es ELSE Unwrap(get_dir(d, et, path)).entry_addr))

RECURSIVE FilesOf(_)
FilesOf(tables) ==
    IF tables = <<>> THEN <<>> ELSE Head(tables).files \o FilesOf(Tail(tables))

\* The live slots of a directory, over its whole chain, in chain order
Entries(d, et, es, path) == FilesOf(DirTables(d, et, es, path))

\* How many entries of a sequence of live slots carry a name
CountIn(files, name) == Cardinality({k \in 1..Len(files) : files[k].name = name})

\* How many live slots of a directory carry a name
CountName(d, et, es, path, name) == CountIn(Entries(d, et, es, path), name)

\* The addresses of a sequence of loaded sectors
AddrsOf(sectors) == {sectors[k].addr : k \in 1..Len(sectors)}

HasMagic(buf) == SubSeq(buf, 509, 512) = Magic

\* The length of the table chain of a directory, 0 if there is none
ChainLen(d, et, es, path) ==
    IF DirExists(d, et, path) THEN Len(DirTables(d, et, es, path)) ELSE 0

\* The parent exists and holds no entry of the last name of the path
IsFresh(d, et, es, path) ==
    /\ DirExists(d, et, ParentPath(path))
    /\ CountName(d, et, es, ParentPath(path), LastName(path)) = 0

\* The last live slot of a table carries the address
IsLastSlot(files, addr) == files # <<>> /\ files[Len(files)].entry_addr = addr

\* The sectors of the data chain of a file get_file found, none if it found none
ChainOfFile(d, file) ==
    IF file = None THEN {}
    ELSE AddrsOf(DataChain(d, DataSector_load(d, Unwrap(file).entry_addr)))

\* The table sectors of the directory get_dir found, none if it found none
ChainOfDir(d, dir) ==
    IF dir = None THEN {}
    ELSE AddrsOf(TableChain(d, FileTableSector_load(d, Unwrap(dir).entry_addr)))

\* The directory get_dir found has a live slot in some table of its chain
HasLiveSlot(d, dir) ==
    /\ dir # None
    /\ FilesOf(TableChain(d, FileTableSector_load(d, Unwrap(dir).entry_addr))) # <<>>

----------------------------------------------------------------------------
(* lib.rs, conhost.rs, input.rs, interrupts.rs, vga.rs: the one CPU.  The  *)
(* main line runs init and then console_loop; an IRQ that arrives while    *)
(* the interrupt flag is set runs its handler to the end, interrupts       *)
(* disabled, before the main line goes on.  A spin::Mutex that is held     *)
(* cannot be taken: the taker spins, which is a step that changes nothing. *)

\* the spin::Mutex statics of the keyboard runs and of the ATA runs
Locks == { "chars", "requesting", "WRITER", "PICS", "KEYBOARD", "BUSES" }

\* what a scancode decodes to: no key event, a raw key, or a unicode
\* character, alphanumeric or ' ', '\n', '\x08', or any other
Keys == { "none", "raw", "alnum", "newline", "backspace", "other" }

NoIrq == [vector |-> "none", pc |-> "none", key |-> "none", eoi |-> << >>]

\* lib::init: its steps in the order of the source
BootOrder == << "gdt", "idt", "pics", "enable", "time", "heap", "ata", "detect_fs" >>

\* a status bit the device sets from poll `at` on, or never sets
Bit(ever, at) == [ever |-> ever, at |-> at]

\* no drive at this position of the bus: the status register reads 0
Absent ==
    [present |-> FALSE, stuck |-> FALSE, busy |-> 0, lba |-> << 0, 0 >>,
     rdy |-> Bit(FALSE, 0), err |-> Bit(FALSE, 0)]

\* the bus with no command in flight and no drive found yet
IdleBus ==
    [cmd |-> "none", drive |-> 0, device |-> Absent, busy |-> 0, i |-> 0, words |-> 0,
     result |-> "none", block |-> << >>, drives |-> << >>]

\* RTC registers (seconds, minutes, hours, weekday, day, month, year, B)
Registers(second, minute, hour, weekday, day, month, year, b) ==
    << second, minute, hour, weekday, day, month, year, b >>

\* struct DateTime
DateTime(raw_values) ==
    [second |-> raw_values[1], minute |-> raw_values[2], hour |-> raw_values[3],
     weekday |-> raw_values[4], day |-> raw_values[5], month |-> raw_values[6],
     year |-> raw_values[7]]

\* DateTime::get was never called: no raw_values, no result
NoTime == [raw_values |-> << >>, result |-> DateTime(<< 0, 0, 0, 0, 0, 0, 0 >>)]

\* init got as far as b; no tick yet, no ATA command in flight, the clock
\* at 00:00:00 on Sunday 01/01/00 in 24-hour binary mode, never read
Platform(b) ==
    /\ boot = b
    /\ TICKS = 0
    /\ timer_irqs = 0
    /\ ata = IdleBus
    /\ rtc = Registers(0, 0, 0, 1, 1, 1, 0, 6)
    /\ now = NoTime

\* the main line at p with nothing locked, no handler running and stdin empty
Machine(p, e) ==
    /\ pc = p
    /\ enabled = e
    /\ locks = [l \in Locks |-> "free"]
    /\ irq = NoIrq
    /\ requesting = FALSE
    /\ chars = << >>
    /\ chars_len = 0
    /\ new_len = 0
    /\ new_char = "none"
    /\ result_len = 0
    /\ halted = FALSE

\* the main line executes its next instruction
Running == irq.vector = "none" /\ ~halted /\ ~panicked

Lock(l, who) == locks[l] = "free" /\ locks' = [locks EXCEPT ![l] = who]

Unlock(l) == locks' = [locks EXCEPT ![l] = "free"]

----------------------------------------------------------------------------
(* The state machine: the kernel after ata::init found one blank drive,    *)
(* then create_fs, then the filesystem calls the shell makes one at a time *)
(* (each under the FILESYSTEM lock, conhost.rs).                           *)

\* the directories whose creations are counted in `made`
DirPaths == { <<>> } \cup { << n >> : n \in Names }

NoCall ==
    [op |-> "none", path |-> <<>>, len |-> 0, result |-> "none",
     parent |-> FALSE, fresh |-> FALSE, existed |-> FALSE, nonempty |-> FALSE,
     repeat |-> FALSE, nofree |-> FALSE, changed |-> FALSE, removed |-> {}, head |-> 0,
     slot_ok |-> FALSE, chain_before |-> 0, listed |-> None]

\* A blank drive of n sectors, nothing mounted
InitWith(n) ==
    /\ DRIVES = << Drive(0, [b \in 0..(n - 1) |-> ZeroSector]) >>
    /\ mounted = FALSE
    /\ drive_index = 0
    /\ entry_sector = 0
    /\ PATH = << >>
    /\ entry_table = FileTableSector_new(0)
    /\ panicked = FALSE
    /\ Machine("execute", TRUE)
    /\ Platform(BootOrder)
    /\ calls = 0
    /\ last = NoCall
    /\ made = [p \in DirPaths |-> -1]

\* create_fs from `*filesystem = Some(FileSystem {..})` on; d is the blocks of
\* the drive chosen after the write of its last sector
Formatted(index, d, sectors) ==
    /\ DRIVES' = [DRIVES EXCEPT ![index + 1].blocks = d]
    /\ mounted' = TRUE
    /\ drive_index' = index
    /\ entry_sector' = sectors - 1
    /\ entry_table' = FileTableSector_load(d, sectors - 1)

\* a format that writes the signature into the last sector as it is
CreateFsOn_keeps(index, d) ==
    Formatted(index,
        Drive_write(d, DriveSectors(d) - 1,
                    PutBytes(Drive_read(d, DriveSectors(d) - 1), 508, Magic)),
        DriveSectors(d))

\* create_fs from `let drive = &drives[drive_index as usize]` on, the user
\* having typed the digit of a drive of the list and then 'y'
CreateFsOn(index, d) ==
    Formatted(index, Drive_write(d, DriveSectors(d) - 1, NewTableBuf), DriveSectors(d))

\* create_fs once the user has chosen the drive and answered 'y'
CreateFs ==
    /\ ~mounted /\ ~panicked
    /\ \E index \in 0..(Len(DRIVES) - 1) : CreateFsOn(index, DRIVES[index + 1].blocks)
    /\ last' = [NoCall EXCEPT !.op = "create_fs", !.result = "Success"]
    /\ made' = [made EXCEPT ![<<>>] = 0]
    /\ UNCHANGED << PATH, panicked, machine, platform, calls >>

\* The path a command builds from a name the user typed: PATH.lock().clone()
\* extended with the components of the name
Typed(path) == Len(PATH) < Len(path) /\ SubSeq(path, 1, Len(PATH)) = PATH

\* `made` after a creation in the parent of path
MadeAfterCreate(path, isDir, fresh) ==
    [p \in DirPaths |->
        IF p = path /\ isDir THEN (IF fresh THEN 0 ELSE -1)
        ELSE IF p = ParentPath(path) /\ made[p] >= 0 THEN made[p] + 1
        ELSE made[p]]

\* `made` after a deletion in the parent of path
MadeAfterDelete(path) ==
    [p \in DirPaths |-> IF p = path \/ p = ParentPath(path) THEN -1 ELSE made[p]]

\* The call returned r: the program state it leaves
Returns(r) ==
    /\ DRIVES' = DrivesWith(r.disk)
    /\ entry_table' = r.entry_table
    /\ panicked' = (r.result = "Panic")
    /\ UNCHANGED << machine, platform >>
    /\ UNCHANGED << mounted, drive_index, entry_sector, PATH >>

\* write_file(path, bytes) returned r
WriteFileReturns(path, len, r) ==
    /\ Returns(r)
    /\ last' = [NoCall EXCEPT
           !.op = "write_file", !.path = path, !.len = len,
           !.result = r.result,
           !.parent = DirExists(disk, entry_table, ParentPath(path)),
           !.fresh = IsFresh(disk, entry_table, entry_sector, path),
           !.existed = get_file(disk, entry_table, path) # None,
           !.nofree = find_available_sector(disk) = None,
           !.changed = (r.disk # disk),
           !.head = r.new_file_sector,
           !.slot_ok = /\ r.result = "Success"
                       /\ IsLastSlot(FileTableSector_load(r.slot_disk, r.slot_table).files,
                                     r.new_file_sector)]
    /\ made' = IF r.result = "Success" THEN MadeAfterCreate(path, FALSE, FALSE) ELSE made

\* WriteCommand::execute on a mounted filesystem: write_file(path, bytes)
DoWriteFile(path, len) ==
    /\ mounted /\ ~panicked /\ Typed(path)
    /\ WriteFileReturns(path, len, write_file(disk, entry_table, path, Content(len)))

\* WriteCommand::execute on a mounted filesystem, the text given byte by byte
DoWriteBytes(path, bytes) ==
    /\ mounted /\ ~panicked /\ Typed(path)
    /\ WriteFileReturns(path, Len(bytes), write_file(disk, entry_table, path, bytes))

\* create_dir(path) returned r
CreateDirReturns(path, r, fresh) ==
    /\ Returns(r)
    /\ last' = [NoCall EXCEPT
           !.op = "create_dir", !.path = path, !.result = r.result,
           !.parent = DirExists(disk, entry_table, ParentPath(path)),
           !.fresh = fresh,
           !.nofree = find_available_sector(disk) = None,
           !.changed = (r.disk # disk),
           !.head = r.new_file_sector]
    /\ made' = IF r.result = "Success" THEN MadeAfterCreate(path, TRUE, fresh) ELSE made

\* CreateDirCommand::execute on a mounted filesystem: create_dir(path)
DoCreateDir(path) ==
    /\ mounted /\ ~panicked /\ Typed(path) /\ Len(path) = Len(PATH) + 1
    /\ CreateDirReturns(path, create_dir(disk, entry_table, path),
                        IsFresh(disk, entry_table, entry_sector, path))

\* delete_file(path) returned r; file is what get_file(path) found before it
DeleteFileReturns(path, r, file) ==
    /\ Returns(r)
    /\ last' = [NoCall EXCEPT
           !.op = "delete_file", !.path = path, !.result = r.result,
           !.existed = file # None,
           !.repeat = /\ last.op = "delete_file" /\ last.path = path
                      /\ last.existed /\ last.result = "Success",
           !.changed = (r.disk # disk),
           !.removed = ChainOfFile(disk, file),
           !.chain_before = ChainLen(disk, entry_table, entry_sector, ParentPath(path))]
    /\ made' = IF r.result = "Success" THEN MadeAfterDelete(path) ELSE made

\* RemoveFileCommand::execute on a mounted filesystem: delete_file(path)
DoDeleteFile(path) ==
    /\ mounted /\ ~panicked /\ Typed(path)
    /\ DeleteFileReturns(path, delete_file(disk, entry_table, entry_sector, path),
                         get_file(disk, entry_table, path))

\* delete_dir(path) returned r; dir is what get_dir(path) found before it
DeleteDirReturns(path, r, dir) ==
    /\ Returns(r)
    /\ last' = [NoCall EXCEPT
           !.op = "delete_dir", !.path = path, !.result = r.result,
           !.existed = dir # None,
           !.nonempty = HasLiveSlot(disk, dir),
           !.changed = (r.disk # disk),
           !.removed = ChainOfDir(disk, dir),
           !.chain_before = ChainLen(disk, entry_table, entry_sector, ParentPath(path))]
    /\ made' = IF r.result = "Success" THEN MadeAfterDelete(path) ELSE made

\* RemoveDirCommand::execute on a mounted filesystem: delete_dir(path)
DoDeleteDir(path) ==
    /\ mounted /\ ~panicked /\ Typed(path)
    /\ DeleteDirReturns(path, delete_dir(disk, entry_table, entry_sector, path),
                        get_dir(disk, entry_table, path))

\* str::split("/") of what is left of a name, cur being the component so far
RECURSIVE SplitFrom(_, _)
SplitFrom(s, cur) ==
    IF s = << >> THEN << cur >>
    ELSE IF Head(s) = 47 THEN << cur >> \o SplitFrom(Tail(s), << >>)
    ELSE SplitFrom(Tail(s), Append(cur, Head(s)))

\* new_dir.split("/")
Split(s) == SplitFrom(s, << >>)

\* CDCommand::execute: new_dir without one leading and one trailing '/'
Trimmed(new_dir) ==
    LET front == IF new_dir # << >> /\ Head(new_dir) = 47 THEN Tail(new_dir) ELSE new_dir
    IN IF front # << >> /\ front[Len(front)] = 47
       THEN SubSeq(front, 1, Len(front) - 1) ELSE front

\* CDCommand::execute: prospective_path
ProspectivePath(path, new_dir) ==
    IF Trimmed(new_dir) = << >> THEN << >>
    ELSE IF Trimmed(new_dir) = << 46, 46 >> THEN SubSeq(path, 1, Len(path) - 1)
    ELSE path \o Split(Trimmed(new_dir))

\* cd went to prospective_path, where list_files returned files
CdReturns(prospective_path, files) ==
    /\ PATH' = IF files # None THEN prospective_path ELSE PATH
    /\ last' = [NoCall EXCEPT
           !.op = "cd", !.path = prospective_path, !.listed = files,
           !.result = IF files # None THEN "Success" ELSE "NotFound"]
    /\ UNCHANGED << DRIVES, mounted, drive_index, entry_sector, entry_table,
                    panicked, machine, platform, made >>

\* CDCommand::execute on a mounted filesystem
DoCd(new_dir) ==
    /\ mounted /\ ~panicked
    /\ CdReturns(ProspectivePath(PATH, new_dir),
                 list_files(disk, entry_table, ProspectivePath(PATH, new_dir)))

\* ListFilesCommand::execute on a mounted filesystem: list_files(&path).unwrap()
DoLs ==
    /\ mounted /\ ~panicked
    /\ last' = [NoCall EXCEPT
           !.op = "ls", !.path = PATH, !.listed = list_files(disk, entry_table, PATH),
           !.result = IF list_files(disk, entry_table, PATH) # None
                      THEN "Success" ELSE "Panic"]
    /\ panicked' = (list_files(disk, entry_table, PATH) = None)
    /\ UNCHANGED << machine, platform >>
    /\ UNCHANGED << DRIVES, mounted, drive_index, entry_sector, entry_table, PATH, made >>

----------------------------------------------------------------------------
(* Spec: a small drive and a few calls on the paths a, b and a/b           *)

Init == InitWith(Sectors)

Paths == { << << 97 >> >>, << << 98 >> >>, << << 97 >>, << 98 >> >> }

\* lengths of the contents written
Lengths == { 0, 506, 507, 1000 }

Counted == calls < MaxCalls /\ calls' = calls + 1

WriteFile == Counted /\ \E path \in Paths, len \in Lengths : DoWriteFile(path, len)

CreateDir == Counted /\ DoCreateDir(<< << 97 >> >>)

DeleteFile == Counted /\ \E path \in Paths : DoDeleteFile(path)

DeleteDir == Counted /\ DoDeleteDir(<< << 97 >> >>)

Next == CreateFs \/ WriteFile \/ CreateDir \/ DeleteFile \/ DeleteDir

Spec == Init /\ [][Next]_vars

----------------------------------------------------------------------------
(* SpecGrow: a larger drive on which the directory a is filled with files  *)
(* fa, fb, .. one by one, next to an empty file b in the root              *)

GrowInit == InitWith(GrowSectors)

DirA == << << 97 >> >>

FileB == << << 98 >> >>

\* the path of the k-th file of the directory a
GrowPath(k) == << << 97 >>, NameOfIndex(k) >>

\* mkdir a, when there is no directory a, before any file is written to it
MakeDir ==
    /\ calls = 0
    /\ get_dir(disk, entry_table, DirA) = None
    /\ DoCreateDir(DirA)
    /\ UNCHANGED calls

\* wt a/f<k> with one byte of text, for the next k, while the first file of
\* the directory is still there
FillFile ==
    /\ calls < GrowEntries
    /\ get_dir(disk, entry_table, DirA) # None
    /\ calls > 0 => get_file(disk, entry_table, GrowPath(0)) # None
    /\ DoWriteFile(GrowPath(calls), 1)
    /\ calls' = calls + 1

\* rm a/f<k> for the first k whose file is there
DropFile ==
    /\ \E k \in 0..(GrowEntries - 1) :
           /\ get_file(disk, entry_table, GrowPath(k)) # None
           /\ \A j \in 0..(k - 1) : get_file(disk, entry_table, GrowPath(j)) = None
           /\ DoDeleteFile(GrowPath(k))
    /\ UNCHANGED calls

\* wt b with no text, when there is neither a file b nor a directory a
WriteAlias ==
    /\ calls = 0
    /\ get_file(disk, entry_table, FileB) = None
    /\ get_dir(disk, entry_table, DirA) = None
    /\ DoWriteFile(FileB, 0)
    /\ UNCHANGED calls

\* rm b
DropAlias ==
    /\ get_file(disk, entry_table, FileB) # None
    /\ DoDeleteFile(FileB)
    /\ UNCHANGED calls

\* rmdir a
RemoveDir ==
    /\ get_dir(disk, entry_table, DirA) # None
    /\ DoDeleteDir(DirA)
    /\ UNCHANGED calls

----------------------------------------------------------------------------
(* SpecBoot: the kernel from the end of ata::init on.  DRIVES holds none,   *)
(* one or both drives of the bus, each blank, formatted, in use, or in use  *)
(* with its signature erased; detect_fs runs, then the shell.               *)

\* a drive of n blank sectors
Blank(n) == [b \in 0..(n - 1) |-> ZeroSector]

\* a drive of n sectors as create_fs leaves it
FormattedImage(n) == Drive_write(Blank(n), n - 1, NewTableBuf)

\* a formatted drive of n sectors after `wt a hi`
UsedImage(n) ==
    write_file(FormattedImage(n), FileTableSector_load(FormattedImage(n), n - 1),
               << << 97 >> >>, << 104, 105 >>).disk

\* the same drive with the four bytes of the signature zeroed
ErasedImage(n) ==
    Drive_write(UsedImage(n), n - 1, PutBytes(UsedImage(n)[n - 1], 508, << 0, 0, 0, 0 >>))

Images ==
    { Blank(BootSectors), FormattedImage(BootSectors),
      UsedImage(BootSectors + 1), ErasedImage(BootSectors + 1) }

\* ata::init: the drives 0 and 1 of the bus that identify, in that order
BootInit ==
    /\ DRIVES \in
           { << >> }
           \cup { << Drive(i, b) >> : i \in {0, 1}, b \in Images }
           \cup { << Drive(0, b0), Drive(1, b1) >> : b0 \in Images, b1 \in Images }
    /\ mounted = FALSE
    /\ drive_index = 0
    /\ entry_sector = 0
    /\ entry_table = FileTableSector_new(0)
    /\ PATH = << >>
    /\ panicked = FALSE
    /\ Machine("execute", TRUE)
    /\ Platform(BootOrder)
    /\ calls = 0
    /\ last = NoCall
    /\ made = [p \in DirPaths |-> -1]

\* nothing has run yet: init is about to call detect_fs
Booting == last.op = "none"

\* &buf[508..512] == &filesystem_signature, for the last sector of a drive
HasSignature(drive) == HasMagic(Drive_read(drive.blocks, DriveSectors(drive.blocks) - 1))

\* detect_fs, `for drive in &*drives` from position k on: the position of the
\* first drive with the signature, 0 when there is none
RECURSIVE ScanDrives(_, _)
ScanDrives(drives, k) ==
    IF k > Len(drives) THEN 0
    ELSE IF HasSignature(drives[k]) THEN k
    ELSE ScanDrives(drives, k + 1)

\* what detect_fs leaves besides the mount, the user having typed keys: the
\* chars get_char returned to detect_fs and create_fs, in order
DetectedAfter(result, keys) ==
    /\ last' = [NoCall EXCEPT !.op = "detect_fs", !.result = result, !.path = << keys >>]
    /\ panicked' = (result = "Panic")
    /\ UNCHANGED << machine, platform >>
    /\ UNCHANGED << PATH, calls >>

\* what detect_fs leaves besides the mount
Detected(result) == DetectedAfter(result, << >>)

\* no mount is made, the user having typed keys
UnmountedAfter(result, keys) ==
    /\ DetectedAfter(result, keys)
    /\ UNCHANGED << DRIVES, mounted, drive_index, entry_sector, entry_table, made >>

\* no mount is made
Unmounted(result) == UnmountedAfter(result, << >>)

\* detect_fs, the body of the `if` for the drive at position k:
\* drive_index = drive.drive_index, and FileTableSector::load indexes DRIVES
\* with it, which panics when it is not a position of the list
MountDetected(drive, sectors) ==
    IF drive.drive_index >= Len(DRIVES) THEN Unmounted("Panic")
    ELSE /\ mounted' = TRUE
         /\ drive_index' = drive.drive_index
         /\ entry_sector' = sectors - 1
         /\ entry_table' = FileTableSector_load(DRIVES[drive.drive_index + 1].blocks,
                                                sectors - 1)
         /\ Detected("Mounted")
         /\ UNCHANGED << DRIVES, made >>

\* the chars the user can type at a prompt: '0', '1', '2', 'n', 'x', 'y'
Keystrokes == { 48, 49, 50, 110, 120, 121 }

\* what the user types until detect_fs returns
TypedKeys == UNION { [1..n -> Keystrokes] : n \in 1..MaxKeys }

\* create_fs, `while drive_index < 0 || drive_index >= drives.len() as i8`,
\* the user typing keys from the k-th on, n drives in the list: a digit sets
\* drive_index and ends the loop when it is below n, 'x' returns, and
\* anything else asks again; next is the first key the loop has not read
RECURSIVE SelectDrive(_, _, _)
SelectDrive(keys, k, n) ==
    IF k > Len(keys) THEN [outcome |-> "asking", drive_index |-> -1, next |-> k]
    ELSE IF keys[k] \in 48..57 /\ keys[k] - 48 < n
         THEN [outcome |-> "selected", drive_index |-> keys[k] - 48, next |-> k + 1]
    ELSE IF keys[k] = 120
         THEN [outcome |-> "exit", drive_index |-> -1, next |-> k + 1]
    ELSE SelectDrive(keys, k + 1, n)

\* a confirmation that only 'n' refuses
Confirmed_unless_n(confirmation) == confirmation # 110

\* create_fs: `if confirmation != 'y' { return warn(..) }` is not taken
Confirmed(confirmation) == confirmation = 121

\* create_fs, the user typing keys from the second on: 'x' or the digit of a
\* drive of the list at the first prompt (anything else asks again), then a
\* character at the second
AskFormat(keys) ==
    \/ /\ SelectDrive(keys, 2, Len(DRIVES)).outcome = "exit"
       /\ SelectDrive(keys, 2, Len(DRIVES)).next = Len(keys) + 1
       /\ UnmountedAfter("Diskless", keys)
    \/ /\ SelectDrive(keys, 2, Len(DRIVES)).outcome = "selected"
       /\ SelectDrive(keys, 2, Len(DRIVES)).next = Len(keys)
       /\ IF ~Confirmed(keys[Len(keys)]) THEN UnmountedAfter("Diskless", keys)
          ELSE /\ CreateFsOn(SelectDrive(keys, 2, Len(DRIVES)).drive_index,
                             DRIVES[SelectDrive(keys, 2, Len(DRIVES)).drive_index + 1].blocks)
               /\ DetectedAfter("Formatted", keys)
               /\ made' = [made EXCEPT ![<< >>] = 0]

\* detect_fs, from `let filesystem = FILESYSTEM.lock()` on, no drive having
\* the signature: the user answers the prompt, and create_fs's if it was 'y'
AskUser ==
    \E keys \in TypedKeys :
        IF keys[1] = 121 THEN AskFormat(keys)
        ELSE Len(keys) = 1 /\ UnmountedAfter("Diskless", keys)

\* fs::detect_fs
DetectFs ==
    /\ Booting
    /\ IF ScanDrives(DRIVES, 1) # 0
       THEN MountDetected(DRIVES[ScanDrives(DRIVES, 1)],
                          DriveSectors(DRIVES[ScanDrives(DRIVES, 1)].blocks))
       ELSE AskUser

\* cd, ls, mkdir, wt, rt, rename, rm, rmdir
FsCommands == { "cd", "ls", "mkdir", "wt", "rt", "rename", "rm", "rmdir" }

\* fs::is_mounted
is_mounted == mounted

\* a command that does nothing without a filesystem and reports success
NotMountedError_silent(op) ==
    /\ ~mounted /\ ~panicked /\ ~Booting
    /\ last' = [NoCall EXCEPT !.op = op, !.result = "Success"]
    /\ UNCHANGED << DRIVES, mounted, drive_index, entry_sector, entry_table, PATH,
                    panicked, machine, platform, calls, made >>

\* execute() of a filesystem command, the else of `if let Some(..) = fs`:
\* FILESYSTEM is None and the command returns NotMountedError
NotMountedError(op) ==
    /\ ~mounted /\ ~panicked /\ ~Booting
    /\ last' = [NoCall EXCEPT !.op = op, !.result = "NotMounted"]
    /\ UNCHANGED << DRIVES, mounted, drive_index, entry_sector, entry_table, PATH,
                    panicked, machine, platform, calls, made >>

\* a filesystem command typed while no filesystem is mounted
Diskless == \E op \in FsCommands : NotMountedError(op)

----------------------------------------------------------------------------
(* SpecForge: a drive of ForgeSectors sectors and files whose content reads *)
(* as a directory table when its sector is loaded as one                    *)

ForgeInit == InitWith(ForgeSectors)

\* 124 bytes that, laid out in a data sector, load as a table whose second
\* slot is a file named "b" at the given address: sector bytes 67.. are the
\* name, byte 125 the type and bytes 126..129 the address
Forged(addr) ==
    PutBytes(PutBytes(Zeros(124), 61, << 98 >>), 120, Be32(addr))

\* wt a or wt c, with no text or with the forged content that names the
\* last sector of the drive
ForgeWrite ==
    /\ Counted
    /\ \E path \in { << << 97 >> >>, << << 99 >> >> },
          bytes \in { << >>, Forged(ForgeSectors - 1) } : DoWriteBytes(path, bytes)

\* mkdir a
ForgeDir == Counted /\ DoCreateDir(DirA)

\* rm a, rm c, rm a/b
ForgeDelete ==
    /\ Counted
    /\ \E path \in { << << 97 >> >>, << << 99 >> >>, << << 97 >>, << 98 >> >> } :
           DoDeleteFile(path)

ForgeNext == CreateFs \/ ForgeWrite \/ ForgeDir \/ ForgeDelete

SpecForge == ForgeInit /\ [][ForgeNext]_vars

\* what the user types after cd: "/", "..", "a", "b", "a/fa"
CdInputs == { << 47 >>, << 46, 46 >>, << 97 >>, << 98 >>, << 97, 47, 102, 97 >> }

\* cd <new dir>
ChangeDir == (\E new_dir \in CdInputs : DoCd(new_dir)) /\ UNCHANGED calls

\* ls
ListDir == DoLs /\ UNCHANGED calls

BootNext == DetectFs \/ Diskless \/ ChangeDir \/ ListDir

SpecBoot == BootInit /\ [][BootNext]_vars

GrowNext ==
    \/ CreateFs \/ MakeDir \/ FillFile \/ DropFile \/ WriteAlias \/ DropAlias \/ RemoveDir
    \/ ChangeDir \/ ListDir

SpecGrow == GrowInit /\ [][GrowNext]_vars

----------------------------------------------------------------------------
(* The sector codec: sector addresses stored by the table and data-sector  *)
(* methods on a formatted drive of two sectors, whose sector 0 is then a   *)
(* data sector and whose sector 1 is the root table.                       *)

\* sector addresses: 1, 0x01020304, 0x7FFFFFFF, 0x80000000 and 0xFFFFFFFF
Addrs == { 1, 16909060, 2147483647, -2147483647 - 1, -1 }

CodecInit ==
    /\ DRIVES = << Drive(0, FormattedImage(CodecSectors)) >>
    /\ mounted = TRUE
    /\ drive_index = 0
    /\ entry_sector = CodecSectors - 1
    /\ PATH = << >>
    /\ entry_table = FileTableSector_load(FormattedImage(CodecSectors), CodecSectors - 1)
    /\ panicked = FALSE
    /\ Machine("execute", TRUE)
    /\ Platform(BootOrder)
    /\ calls = 0
    /\ last = NoCall
    /\ made = [p \in DirPaths |-> -1]

\* a method of the root table left it as t and wrote it
TableStored(t, op, addr) ==
    /\ DRIVES' = DrivesWith(update_physical_drive(disk, t))
    /\ entry_table' = t
    /\ last' = [NoCall EXCEPT !.op = op, !.result = "Success", !.head = addr,
                              !.len = Len(entry_table.files)]
    /\ UNCHANGED << mounted, drive_index, entry_sector, PATH, panicked, machine, platform, calls, made >>

\* FileTableSector::set_continuation(sector) on the root table
SetContinuation ==
    \E sector \in Addrs :
        TableStored([entry_table EXCEPT !.continuation_addr = Some(sector)],
                    "set_continuation", sector)

\* FileTableSector::add_file(name, addr) and add_dir(name, addr) on the root table
AddEntry ==
    /\ Len(entry_table.files) < CodecEntries
    /\ \E kind \in { "File", "Dir" }, addr \in Addrs :
           TableStored(add_entry(entry_table, kind, << 97 >>, addr),
                       IF kind = "File" THEN "add_file" ELSE "add_dir", addr)

\* write_file: current_sector.continuation_addr = Some(extension_file_sector);
\* current_sector.update_physical_drive(drive), on the data sector 0
ExtendData ==
    /\ \E extension_file_sector \in Addrs :
           /\ DRIVES' = DrivesWith(DataSector_update(disk,
                            [DataSector_load(disk, 0) EXCEPT
                                !.continuation_addr = Some(extension_file_sector)]))
           /\ last' = [NoCall EXCEPT !.op = "extend", !.result = "Success",
                                     !.head = extension_file_sector]
    /\ UNCHANGED << mounted, drive_index, entry_sector, entry_table, PATH,
                    panicked, machine, platform, calls, made >>

CodecNext == SetContinuation \/ AddEntry \/ ExtendData

SpecCodec == CodecInit /\ [][CodecNext]_vars

----------------------------------------------------------------------------
(* The keyboard runs: a kernel without drives from lib::init on, the shell *)
(* reading lines, the timer and the keyboard interrupting it.              *)

IrqInit ==
    /\ DRIVES = << >>
    /\ mounted = FALSE
    /\ drive_index = 0
    /\ entry_sector = 0
    /\ PATH = << >>
    /\ entry_table = FileTableSector_new(0)
    /\ panicked = FALSE
    /\ calls = 0
    /\ last = NoCall
    /\ made = [p \in DirPaths |-> -1]
    /\ Machine("init", FALSE)
    /\ Platform(<< >>)

\* an init that goes on without loading the IDT
Step_skipped(from, step, to) ==
    /\ pc = from
    /\ boot' = IF step = "idt" THEN boot ELSE Append(boot, step)
    /\ pc' = to

\* lib::init completes one of its steps
Step(from, step, to) ==
    /\ pc = from
    /\ boot' = Append(boot, step)
    /\ pc' = to

\* lib::init, its okay(..) prints apart.  ata::init and fs::detect_fs are
\* one step each: a kernel without drives, whose user answers 'n'
KernelInit ==
    /\ Running
    /\ \/ Step("init", "gdt", "init_idt") /\ UNCHANGED << enabled, locks >>
       \/ Step("init_idt", "idt", "okay_stack") /\ UNCHANGED << enabled, locks >>
       \/ /\ pc = "init_pics" /\ Lock("PICS", "main") /\ pc' = "init_pics_locked"
          /\ UNCHANGED << enabled, boot >>
       \/ /\ Step("init_pics_locked", "pics", "init_enable") /\ Unlock("PICS")
          /\ UNCHANGED enabled
       \/ Step("init_enable", "enable", "okay_interrupts") /\ enabled' = TRUE /\ UNCHANGED locks
       \/ Step("init_time", "time", "okay_time") /\ UNCHANGED << enabled, locks >>
       \/ Step("init_heap", "heap", "okay_heap") /\ UNCHANGED << enabled, locks >>
       \/ Step("init_ata", "ata", "okay_disks") /\ UNCHANGED << enabled, locks >>
       \/ Step("detect_fs", "detect_fs", "prompt") /\ UNCHANGED << enabled, locks >>
    /\ UNCHANGED << fsvars, devices, TICKS, timer_irqs, irq, requesting, chars, chars_len,
                    new_len, new_char, result_len, halted >>

\* the prints of the main line: where each starts, where it is with
\* interrupts disabled, where it holds WRITER, where it goes on, and whether
\* interrupts were enabled when it started
PrintSites ==
    { << "okay_stack", "okay_stack_cli", "okay_stack_locked", "init_pics", FALSE >>,
      << "okay_interrupts", "okay_interrupts_cli", "okay_interrupts_locked", "init_time", TRUE >>,
      << "okay_time", "okay_time_cli", "okay_time_locked", "init_heap", TRUE >>,
      << "okay_heap", "okay_heap_cli", "okay_heap_locked", "init_ata", TRUE >>,
      << "okay_disks", "okay_disks_cli", "okay_disks_locked", "detect_fs", TRUE >>,
      << "prompt", "prompt_cli", "prompt_locked", "get_str", TRUE >>,
      << "overwrite", "overwrite_cli", "overwrite_locked", "get_char", TRUE >>,
      << "println", "println_cli", "println_locked", "prompt", TRUE >> }

\* interrupts::without_interrupts(|| { WRITER.lock().write..(..) }) in the
\* main line: okay, lock_write_colour, get_str's overwrite_char, _print
WithoutInterrupts ==
    /\ Running
    /\ \E site \in PrintSites :
           \/ pc = site[1] /\ enabled' = FALSE /\ pc' = site[2] /\ UNCHANGED locks
           \/ pc = site[2] /\ Lock("WRITER", "main") /\ pc' = site[3] /\ UNCHANGED enabled
           \/ pc = site[3] /\ Unlock("WRITER") /\ enabled' = site[5] /\ pc' = site[4]
    /\ UNCHANGED << fsvars, platform, irq, requesting, chars, chars_len, new_len, new_char,
                    result_len, halted >>

\* Stdin::clear, at the start and at the end of get_str
Clear ==
    /\ Running
    /\ \E site \in { << "get_str", "clear_locked", "get_char" >>,
                     << "clear_end", "clear_end_locked", "execute" >> } :
           \/ pc = site[1] /\ Lock("chars", "main") /\ pc' = site[2] /\ UNCHANGED chars
           \/ pc = site[2] /\ chars' = << >> /\ Unlock("chars") /\ pc' = site[3]
    /\ result_len' = IF pc = "get_str" THEN 0 ELSE result_len
    /\ UNCHANGED << fsvars, platform, enabled, irq, requesting, chars_len, new_len, new_char, halted >>

\* Stdin::get_char up to its loop
GetCharBegin ==
    /\ Running
    /\ \/ /\ pc = "get_char" /\ Lock("chars", "main") /\ pc' = "gc_chars"
          /\ UNCHANGED << requesting, chars_len >>
       \/ /\ pc = "gc_chars" /\ Lock("requesting", "main") /\ pc' = "gc_requesting"
          /\ UNCHANGED << requesting, chars_len >>
       \/ /\ pc = "gc_requesting" /\ chars_len' = Len(chars) /\ requesting' = TRUE
          /\ Unlock("requesting") /\ pc' = "gc_drop"
       \/ /\ pc = "gc_drop" /\ Unlock("chars") /\ pc' = "loop"
          /\ UNCHANGED << requesting, chars_len >>
    /\ UNCHANGED << fsvars, platform, enabled, irq, chars, new_len, new_char, result_len, halted >>

\* the loop of Stdin::get_char
GetCharLoop ==
    /\ Running
    /\ \/ /\ pc = "loop" /\ Lock("chars", "main") /\ pc' = "loop_locked"
          /\ UNCHANGED << new_len, halted >>
       \/ /\ pc = "loop_locked" /\ new_len' = Len(chars) /\ Unlock("chars")
          /\ pc' = "loop_test" /\ UNCHANGED halted
       \/ /\ pc = "loop_test" /\ new_len # chars_len /\ pc' = "end"
          /\ UNCHANGED << locks, new_len, halted >>
       \/ /\ pc = "loop_test" /\ new_len = chars_len /\ halted' = TRUE /\ pc' = "loop"
          /\ UNCHANGED << locks, new_len >>
    /\ UNCHANGED << fsvars, platform, enabled, irq, requesting, chars, chars_len, new_char,
                    result_len >>

\* Stdin::get_char after its loop
GetCharEnd ==
    /\ Running
    /\ \/ /\ pc = "end" /\ Lock("chars", "main") /\ pc' = "end_chars"
          /\ UNCHANGED << requesting, new_char >>
       \/ /\ pc = "end_chars" /\ Lock("requesting", "main") /\ pc' = "end_requesting"
          /\ UNCHANGED << requesting, new_char >>
       \/ /\ pc = "end_requesting" /\ requesting' = FALSE
          /\ new_char' = chars[Len(chars)]
          /\ locks' = [locks EXCEPT !["requesting"] = "free", !["chars"] = "free"]
          /\ pc' = "got_char"
    /\ UNCHANGED << fsvars, platform, enabled, irq, chars, chars_len, new_len, result_len, halted >>

\* Stdin::get_str on the char get_char returned
GetStr ==
    /\ Running /\ pc = "got_char"
    /\ \/ new_char = "newline" /\ pc' = "clear_end" /\ UNCHANGED result_len
       \/ /\ new_char = "backspace" /\ result_len > 0
          /\ result_len' = result_len - 1 /\ pc' = "overwrite"
       \/ /\ new_char = "backspace" /\ result_len = 0
          /\ pc' = "get_char" /\ UNCHANGED result_len
       \/ /\ new_char = "alnum"
          /\ result_len' = result_len + 1 /\ pc' = "get_char"
    /\ UNCHANGED << fsvars, platform, enabled, locks, irq, requesting, chars, chars_len, new_len,
                    new_char, halted >>

\* console_loop: command.execute() of a command that touches no drive
Execute ==
    /\ Running /\ pc = "execute" /\ pc' = "println"
    /\ UNCHANGED << fsvars, platform, enabled, locks, irq, requesting, chars, chars_len, new_len,
                    new_char, result_len, halted >>

\* an IRQ is delivered: the timer, or the keyboard with a scancode
Raise ==
    /\ enabled /\ irq.vector = "none" /\ ~panicked
    /\ \E vector \in { "timer", "keyboard" }, key \in Keys :
           /\ vector = "timer" => key = "none" /\ timer_irqs < MaxTicks
           /\ key \in { "alnum", "newline", "backspace" } => Len(chars) < MaxChars
           /\ irq' = [vector |-> vector, pc |-> "entry", key |-> key, eoi |-> << >>]
    /\ halted' = FALSE
    /\ UNCHANGED << fsvars, platform, pc, enabled, locks, requesting, chars, chars_len, new_len,
                    new_char, result_len >>

\* PICS.lock().notify_end_of_interrupt(vector)
NotifyEndOfInterrupt ==
    /\ locks["PICS"] = "free"
    /\ irq' = [irq EXCEPT !.pc = "ret", !.eoi = Append(@, irq.vector)]

\* a handler that adds 1 a tick
handle_pit_interrupt_by_one == TICKS' = TICKS + 1 /\ timer_irqs' = timer_irqs + 1

\* time::handle_pit_interrupt: TICKS.fetch_add(2, Ordering::Relaxed)
handle_pit_interrupt == TICKS' = TICKS + 2 /\ timer_irqs' = timer_irqs + 1

\* timer_interrupt_handler
TimerHandler ==
    /\ irq.vector = "timer"
    /\ \/ /\ irq.pc = "entry" /\ irq' = [irq EXCEPT !.pc = "eoi"]
          /\ handle_pit_interrupt
       \/ irq.pc = "eoi" /\ NotifyEndOfInterrupt /\ UNCHANGED << TICKS, timer_irqs >>
       \/ irq.pc = "ret" /\ irq' = NoIrq /\ UNCHANGED << TICKS, timer_irqs >>
    /\ UNCHANGED << fsvars, boot, devices, pc, enabled, locks, requesting, chars, chars_len,
                    new_len, new_char, result_len, halted >>

\* keyboard_interrupt_handler around handle_raw_char_input
KeyboardHandler ==
    /\ irq.vector = "keyboard"
    /\ \/ /\ irq.pc = "entry" /\ Lock("KEYBOARD", "irq")
          /\ irq' = [irq EXCEPT !.pc = "decode"]
       \/ /\ irq.pc = "decode"
          /\ irq' = [irq EXCEPT !.pc = IF irq.key \in { "none", "raw" }
                                       THEN "eoi" ELSE "requesting"]
          /\ UNCHANGED locks
       \/ irq.pc = "eoi" /\ NotifyEndOfInterrupt /\ UNCHANGED locks
       \/ irq.pc = "ret" /\ Unlock("KEYBOARD") /\ irq' = NoIrq
    /\ UNCHANGED << fsvars, platform, pc, enabled, requesting, chars, chars_len, new_len,
                    new_char, result_len, halted >>

\* handle_raw_char_input
HandleRawCharInput ==
    /\ irq.vector = "keyboard"
    /\ \/ /\ irq.pc = "requesting" /\ locks["requesting"] = "free"
          /\ irq' = [irq EXCEPT !.pc = IF requesting THEN "chars" ELSE "eoi"]
          /\ UNCHANGED << locks, chars >>
       \/ /\ irq.pc = "chars" /\ Lock("chars", "irq")
          /\ irq' = [irq EXCEPT !.pc = "push"]
          /\ UNCHANGED chars
       \/ /\ irq.pc = "push" /\ irq.key \in { "alnum", "newline" }
          /\ chars' = Append(chars, irq.key)
          /\ irq' = [irq EXCEPT !.pc = "print"]
          /\ UNCHANGED locks
       \/ /\ irq.pc = "push" /\ irq.key \notin { "alnum", "newline" }
          /\ chars' = IF irq.key = "backspace" THEN Append(chars, irq.key) ELSE chars
          /\ Unlock("chars")
          /\ irq' = [irq EXCEPT !.pc = "eoi"]
       \/ /\ irq.pc = "print" /\ locks["WRITER"] = "free"
          /\ Unlock("chars")
          /\ irq' = [irq EXCEPT !.pc = "eoi"]
          /\ UNCHANGED chars
    /\ UNCHANGED << fsvars, platform, pc, enabled, requesting, chars_len, new_len, new_char,
                    result_len, halted >>

\* the handler that is running takes its next step
Handler == TimerHandler \/ KeyboardHandler \/ HandleRawCharInput

IrqNext ==
    \/ KernelInit \/ WithoutInterrupts \/ Clear \/ GetCharBegin \/ GetCharLoop
    \/ GetCharEnd \/ GetStr \/ Execute \/ Raise
    \/ TimerHandler \/ KeyboardHandler \/ HandleRawCharInput

\* the CPU goes on with the handler it is in
SpecIrq == IrqInit /\ [][IrqNext]_vars /\ WF_vars(Handler)

----------------------------------------------------------------------------
(* ata.rs: the ATA bus.  A device is described by what its registers read  *)
(* after a command: whether the status register reads 0, how many reads    *)
(* show BSY (or that BSY never clears), what LBA1 and LBA2 read, and from  *)
(* which poll on RDY and ERR are set.                                      *)

\* the devices the runs put on the bus
Devices ==
    { Absent } \cup
    [present : { TRUE }, stuck : BOOLEAN, busy : { 0, 1 },
     lba : { << 0, 0 >>, << 20, 235 >>, << 0, 1 >> },
     rdy : { Bit(FALSE, 0), Bit(TRUE, 0), Bit(TRUE, 1), Bit(TRUE, PollLimit - 1),
             Bit(TRUE, PollLimit) },
     err : { Bit(FALSE, 0), Bit(TRUE, 0), Bit(TRUE, 1), Bit(TRUE, PollLimit - 1) }]

\* a bit that shows one poll after the device sets it
Sets_late(bit, i) == bit.ever /\ i > bit.at

\* status_reg.read().get_bit(..) at poll i, for a bit of the device
Sets(bit, i) == bit.ever /\ i >= bit.at

\* str followed by spaces up to n chars, and str after spaces up to n chars
PadRight(str, n) == str \o [k \in 1..(n - Len(str)) |-> 32]

PadLeft(str, n) == [k \in 1..(n - Len(str)) |-> 32] \o str

\* the 256 words a drive answers to Identify: serial (20 chars) in words
\* 10..19, model (40 chars) in words 27..46, two chars a word, the first in
\* the high byte; the sector count in words 60 (low) and 61 (high)
IdentifyBlock(serial, model, low, high) ==
    [k \in 1..SectorWords |->
        IF k - 1 \in 10..19 THEN serial[2 * (k - 11) + 1] * 256 + serial[2 * (k - 11) + 2]
        ELSE IF k - 1 \in 27..46 THEN model[2 * (k - 28) + 1] * 256 + model[2 * (k - 28) + 2]
        ELSE IF k - 1 = 60 THEN low
        ELSE IF k - 1 = 61 THEN high
        ELSE 0]

\* "ABCDEF" / "QEMU HARDDISK" / 6 sectors; "QM00001" after spaces / "A B"
\* between spaces / 0x00010002 sectors; "Z9" / "DISK" / 0x80000001 sectors
IdentifyBlocks ==
    { IdentifyBlock(PadRight(<< 65, 66, 67, 68, 69, 70 >>, 20),
                    PadRight(<< 81, 69, 77, 85, 32, 72, 65, 82, 68, 68, 73, 83, 75 >>, 40),
                    6, 0),
      IdentifyBlock(PadLeft(<< 81, 77, 48, 48, 48, 48, 49 >>, 20),
                    PadRight(<< 32, 32, 65, 32, 66 >>, 40),
                    2, 1),
      IdentifyBlock(PadRight(<< 90, 57 >>, 20),
                    PadLeft(<< 68, 73, 83, 75 >>, 40),
                    1, 32768) }

\* u16::to_le_bytes
ToLeBytes(word) == << word % 256, word \div 256 >>

\* u16::to_be_bytes
ToBeBytes(word) == << word \div 256, word % 256 >>

\* for i in from..to { for &b in &buf[i].to_be_bytes() { s.push(b as char) } }
RECURSIVE WordChars(_, _, _)
WordChars(buf, from, to) ==
    IF from >= to THEN << >>
    ELSE ToBeBytes(buf[from + 1]) \o WordChars(buf, from + 1, to)

\* char::is_whitespace for a char below U+0100
IsWhitespace(c) == c \in (9..13) \cup { 32, 133, 160 }

RECURSIVE TrimStart(_)
TrimStart(str) ==
    IF str # << >> /\ IsWhitespace(Head(str)) THEN TrimStart(Tail(str)) ELSE str

RECURSIVE TrimEnd(_)
TrimEnd(str) ==
    IF str # << >> /\ IsWhitespace(str[Len(str)])
    THEN TrimEnd(SubSeq(str, 1, Len(str) - 1)) ELSE str

\* str::trim
Trim(str) == TrimEnd(TrimStart(str))

\* (buf[61] as u32) << 16 | (buf[60] as u32); a u32 of 2^31 or more is held
\* as that value minus 2^32
SectorCount(buf) ==
    (IF buf[62] >= 32768 THEN buf[62] - 65536 ELSE buf[62]) * 65536 + buf[61]

\* ata::init: the Drive it pushes for the buf that drive answered
ParseDrive(drive, buf) ==
    [bus_index |-> 0, drive_index |-> drive,
     model |-> Trim(WordChars(buf, 27, 47)),
     serial |-> Trim(WordChars(buf, 10, 20)),
     sectors |-> SectorCount(buf)]

\* identify_drive returns: None, or Some(res) after 256 reads of the data port
Identified(result, words, block) ==
    /\ ata' = [ata EXCEPT !.cmd = "none", !.result = result, !.words = words,
                          !.block = block]
    /\ pc' = "id_return"

\* the poll loop gives up after one poll too many
GiveUp_late(i) == i = PollLimit + 1

\* identify_drive: `if i == 256`
GiveUp(i) == i = PollLimit

\* Bus::identify_drive(drive); the main line holds BUSES
IdentifyDrive ==
    /\ Running
    /\ \/ /\ pc = "identify"
          /\ \E device \in Devices :
                 ata' = [ata EXCEPT !.cmd = "identify", !.device = device,
                                    !.busy = device.busy, !.i = 0, !.words = 0,
                                    !.result = "none", !.block = << >>]
          /\ pc' = "id_status"
       \/ /\ pc = "id_status" /\ ~ata.device.present
          /\ Identified("None", ata.words, << >>)
       \/ /\ pc = "id_status" /\ ata.device.present
          /\ pc' = "id_busy" /\ UNCHANGED ata
       \/ /\ pc = "id_busy" /\ ~ata.device.stuck /\ ata.busy > 0
          /\ ata' = [ata EXCEPT !.busy = @ - 1] /\ UNCHANGED pc
       \/ /\ pc = "id_busy" /\ ~ata.device.stuck /\ ata.busy = 0
          /\ pc' = "id_lba" /\ UNCHANGED ata
       \/ /\ pc = "id_lba" /\ ata.device.lba # << 0, 0 >>
          /\ Identified("None", ata.words, << >>)
       \/ /\ pc = "id_lba" /\ ata.device.lba = << 0, 0 >>
          /\ pc' = "id_poll" /\ UNCHANGED ata
       \/ /\ pc = "id_poll"
          /\ GiveUp(ata.i) \/ Sets(ata.device.err, ata.i)
          /\ Identified("None", ata.words, << >>)
       \/ /\ pc = "id_poll"
          /\ ~GiveUp(ata.i) /\ ~Sets(ata.device.err, ata.i) /\ Sets(ata.device.rdy, ata.i)
          /\ pc' = "id_data" /\ UNCHANGED ata
       \/ /\ pc = "id_poll"
          /\ ~GiveUp(ata.i) /\ ~Sets(ata.device.err, ata.i) /\ ~Sets(ata.device.rdy, ata.i)
          /\ ata' = [ata EXCEPT !.i = @ + 1] /\ UNCHANGED pc
       \/ /\ pc = "id_data"
          /\ \E block \in IdentifyBlocks : Identified("Some", SectorWords, block)
    /\ UNCHANGED << fsvars, enabled, locks, irq, requesting, chars, chars_len, new_len,
                    new_char, result_len, halted, boot, TICKS, timer_irqs, rtc, now >>

\* ata::init around its two calls of identify_drive
AtaInit ==
    /\ Running
    /\ \/ /\ pc = "ata_init" /\ Lock("BUSES", "main")
          /\ pc' = "identify" /\ UNCHANGED ata
       \/ /\ pc = "id_return" /\ ata.drive = 0
          /\ ata' = [ata EXCEPT
                 !.drive = 1, !.device = Absent, !.result = "none",
                 !.drives = IF ata.result = "Some"
                            THEN Append(@, ParseDrive(ata.drive, ata.block)) ELSE @]
          /\ pc' = "identify" /\ UNCHANGED locks
       \/ /\ pc = "id_return" /\ ata.drive = 1
          /\ ata' = [ata EXCEPT
                 !.device = Absent, !.result = "none",
                 !.drives = IF ata.result = "Some"
                            THEN Append(@, ParseDrive(ata.drive, ata.block)) ELSE @]
          /\ Unlock("BUSES") /\ pc' = "ata_done"
    /\ UNCHANGED << fsvars, enabled, irq, requesting, chars, chars_len, new_len,
                    new_char, result_len, halted, boot, TICKS, timer_irqs, rtc, now >>

\* a transfer that drops BUSES once the command is written
Transfer_unlocked(cmd) ==
    /\ pc = "transfer" /\ ata.cmd = "none"
    /\ \E device \in { d \in Devices : d.present } :
           ata' = [ata EXCEPT !.cmd = cmd, !.device = device, !.busy = device.busy,
                              !.words = 0]
    /\ Unlock("BUSES")
    /\ pc' = "busy_loop"

\* Bus::read / Bus::write: setup(drive, block) and the write of the command
Transfer(cmd) ==
    /\ pc = "transfer" /\ ata.cmd = "none"
    /\ \E device \in { d \in Devices : d.present } :
           ata' = [ata EXCEPT !.cmd = cmd, !.device = device, !.busy = device.busy,
                              !.words = 0]
    /\ pc' = "busy_loop"
    /\ UNCHANGED locks

\* Drive::read and Drive::write of a drive that identified
DriveTransfer ==
    /\ Running
    /\ \/ /\ pc = "ata_done" /\ ata.drives # << >> /\ Lock("BUSES", "main")
          /\ pc' = "transfer" /\ UNCHANGED ata
       \/ \E cmd \in { "read", "write" } : Transfer(cmd)
       \/ /\ pc \in { "busy_loop", "last_busy_loop" } /\ ~ata.device.stuck /\ ata.busy > 0
          /\ ata' = [ata EXCEPT !.busy = @ - 1] /\ UNCHANGED << pc, locks >>
       \/ /\ pc = "busy_loop" /\ ~ata.device.stuck /\ ata.busy = 0
          /\ pc' = "data" /\ UNCHANGED << ata, locks >>
       \/ /\ pc = "data" /\ ata.cmd = "read"
          /\ ata' = [ata EXCEPT !.cmd = "none", !.words = SectorWords, !.device = Absent]
          /\ pc' = "unlock" /\ UNCHANGED locks
       \/ /\ pc = "data" /\ ata.cmd = "write"
          /\ \E busy \in { 0, 1 } : ata' = [ata EXCEPT !.words = SectorWords, !.busy = busy]
          /\ pc' = "last_busy_loop" /\ UNCHANGED locks
       \/ /\ pc = "last_busy_loop" /\ ~ata.device.stuck /\ ata.busy = 0
          /\ ata' = [ata EXCEPT !.cmd = "none", !.device = Absent]
          /\ pc' = "unlock" /\ UNCHANGED locks
       \/ /\ pc = "unlock" /\ Unlock("BUSES")
          /\ pc' = "ata_done" /\ UNCHANGED ata
    /\ UNCHANGED << fsvars, enabled, irq, requesting, chars, chars_len, new_len,
                    new_char, result_len, halted, boot, TICKS, timer_irqs, rtc, now >>

\* lib::init has reached ata::init
AtaStart ==
    /\ DRIVES = << >>
    /\ mounted = FALSE
    /\ drive_index = 0
    /\ entry_sector = 0
    /\ PATH = << >>
    /\ entry_table = FileTableSector_new(0)
    /\ panicked = FALSE
    /\ calls = 0
    /\ last = NoCall
    /\ made = [p \in DirPaths |-> -1]
    /\ Machine("ata_init", TRUE)
    /\ Platform(SubSeq(BootOrder, 1, 6))

AtaNext == AtaInit \/ IdentifyDrive \/ DriveTransfer

\* the CPU goes on with identify_drive once it is in it
SpecAta == AtaStart /\ [][AtaNext]_vars /\ WF_vars(IdentifyDrive)

----------------------------------------------------------------------------
(* The real-time clock: DateTime::get (time.rs) reads the CMOS registers,   *)
(* decodes them by the mode bits of register B and builds a DateTime.  The  *)
(* clock holds one time of day in one of its four modes; the console reads  *)
(* it with `date`.                                                          *)

RECURSIVE And(_, _)
\* a & b on unsigned bytes
And(a, b) ==
    IF a = 0 \/ b = 0 THEN 0
    ELSE (a % 2) * (b % 2) + 2 * And(a \div 2, b \div 2)

\* a | b on unsigned bytes
Or(a, b) == a + b - And(a, b)

\* u8 arithmetic
U8(v) == v % 256

\* what the clock shows for v in the data mode of register B
Encode(v, b) == IF And(b, 4) = 0 THEN (v \div 10) * 16 + (v % 10) ELSE v

\* what the clock shows for hour h of the day in the modes of register B
EncodeHour(h, b) ==
    IF And(b, 2) # 0 THEN Encode(h, b)
    ELSE Encode(IF h % 12 = 0 THEN 12 ELSE h % 12, b) + (IF h >= 12 THEN 128 ELSE 0)

\* the times of day and dates the clock is read at
Seconds == { 0, 59 }
Hours == 0..(HoursPerDay - 1)
Months == { 1, 12 }
Years == 0..(YearsPerCentury - 1)

\* register B: bit 1 = 24-hour mode, bit 2 = binary mode
RegisterB == { 0, 2, 4, 6 }

\* a decoding that takes the byte as it is
FromBcd_raw(v) == U8(And(v, 15) + (v \div 16) * 16)

\* (v & 0x0F) + ((v / 16) * 10)
FromBcd(v) == U8(And(v, 15) + U8((v \div 16) * 10))

\* ((v & 0x0F) + (((v & 0x70) / 16) * 10)) | (v & 0x80)
HourFromBcd(v) == Or(U8(And(v, 15) + U8((And(v, 112) \div 16) * 10)), And(v, 128))

\* if raw_values[7] & 0x04 == 0 { .. }
BcdMode(raw_values) ==
    IF And(raw_values[8], 4) = 0
    THEN [raw_values EXCEPT ![1] = FromBcd(@), ![2] = FromBcd(@), ![3] = HourFromBcd(@),
                            ![5] = FromBcd(@), ![6] = FromBcd(@), ![7] = FromBcd(@)]
    ELSE raw_values

\* if (raw_values[7] & 0x02 == 0) && (raw_values[2] & 0x80 == 0) { .. }
To24Hour(raw_values) ==
    IF And(raw_values[8], 2) = 0 /\ And(raw_values[3], 128) = 0
    THEN [raw_values EXCEPT ![3] = U8(And(@, 127) + 12) % 24]
    ELSE raw_values

\* DateTime::get, a stage a step: the eight register reads, the BCD
\* decoding, the 12-hour conversion, the DateTime returned
DateTimeGet ==
    /\ Running
    /\ \/ pc = "execute" /\ now' = [now EXCEPT !.raw_values = rtc] /\ pc' = "date_bcd"
       \/ /\ pc = "date_bcd" /\ now' = [now EXCEPT !.raw_values = BcdMode(@)]
          /\ pc' = "date_hour"
       \/ /\ pc = "date_hour" /\ now' = [now EXCEPT !.raw_values = To24Hour(@)]
          /\ pc' = "date_return"
       \/ /\ pc = "date_return" /\ now' = [now EXCEPT !.result = DateTime(now.raw_values)]
          /\ pc' = "execute"
    /\ UNCHANGED << fsvars, enabled, locks, irq, requesting, chars, chars_len, new_len,
                    new_char, result_len, halted, boot, TICKS, timer_irqs, ata, rtc >>

\* the console executes `date` on a kernel without drives; the clock is at
\* some time of some day in some mode
RtcStart ==
    /\ DRIVES = << >>
    /\ mounted = FALSE
    /\ drive_index = 0
    /\ entry_sector = 0
    /\ PATH = << >>
    /\ entry_table = FileTableSector_new(0)
    /\ panicked = FALSE
    /\ calls = 0
    /\ last = NoCall
    /\ made = [p \in DirPaths |-> -1]
    /\ Machine("execute", TRUE)
    /\ boot = BootOrder
    /\ TICKS = 0
    /\ timer_irqs = 0
    /\ ata = IdleBus
    /\ now = NoTime
    /\ \E second \in Seconds, hour \in Hours, month \in Months, year \in Years,
          b \in RegisterB :
           rtc = Registers(Encode(second, b), Encode(59 - second, b), EncodeHour(hour, b),
                           1 + (second % 7), Encode(31 - (second \div 2), b), Encode(month, b),
                           Encode(year, b), b)

RtcNext == DateTimeGet

SpecRtc == RtcStart /\ [][RtcNext]_vars

----------------------------------------------------------------------------
(* Drive::read and Drive::write port by port (ata.rs): every access of a    *)
(* register of the bus is a step and is logged in ata.ports with the value  *)
(* written or read.  The device answers the command with BSY for some       *)
(* status reads, or for ever; after the data words of a write it does so    *)
(* again.  A spin on a status that never changes is no step.                *)

\* the drives ata::init found: position 0, position 1, or both
PortDrives ==
    LET found(i) == ParseDrive(i, CHOOSE b \in IdentifyBlocks : SectorCount(b) = 6)
    IN  { << found(0) >>, << found(1) >>, << found(0), found(1) >> }

\* the blocks transferred: 0, 1, 0x00FFFFFF, 0x7ABCDEF1
PortBlocks == { 0, 1, 16777215, 2058149617 }

\* how a device answers: status reads with BSY after the command and after
\* the data words of a write, and where, if anywhere, BSY stays for ever
PortDevices ==
    [present : { TRUE }, busy : { 0, 1, PollLimit + 1 }, flush : { 0, 1 },
     stuck : { "never", "command", "flush" }]

\* DriveCommand::Read, DriveCommand::Write
CommandByte(cmd) == IF cmd = "read" THEN 32 ELSE 48

\* a setup that writes the LBA before the drive and the sector count
setup_lba_first(drive, block) ==
    << << "lba0_reg", block % 256 >>,
       << "lba1_reg", (block \div 256) % 256 >>,
       << "lba2_reg", (block \div 65536) % 256 >>,
       << "drive_reg", Or(Or(224, U8(drive * 16)), And((block \div 16777216) % 16, 15)) >>,
       << "sector_count_reg", 1 >> >>

\* Bus::setup: the registers it writes, in order, with the values
setup(drive, block) ==
    << << "drive_reg", Or(Or(224, U8(drive * 16)), And((block \div 16777216) % 16, 15)) >>,
       << "sector_count_reg", 1 >>,
       << "lba0_reg", block % 256 >>,
       << "lba1_reg", (block \div 256) % 256 >>,
       << "lba2_reg", (block \div 65536) % 256 >> >>

\* the device shows BSY to the status read of the busy_loop that runs now
ShowsBusy ==
    \/ ata.busy > 0
    \/ ata.device.stuck = (IF ata.words = SectorWords THEN "flush" ELSE "command")

\* a busy_loop that gives up after 256 status reads
busy_loop_bounded ==
    \/ /\ pc = "wait" /\ ata.i < 4
       /\ ata' = [ata EXCEPT !.i = @ + 1, !.ports = Append(@, << "alt_status_reg", 0 >>)]
       /\ UNCHANGED pc
    \/ /\ pc = "wait" /\ ata.i = 4
       /\ ata' = [ata EXCEPT !.i = 0] /\ pc' = "is_busy"
    \/ /\ pc = "is_busy" /\ ata.busy > 0 /\ ata.i < PollLimit
       /\ ata' = [ata EXCEPT !.busy = @ - 1, !.i = @ + 1,
                             !.ports = Append(@, << "status_reg", 128 >>)]
       /\ UNCHANGED pc
    \/ /\ pc = "is_busy" /\ (~ShowsBusy \/ ata.i >= PollLimit)
       /\ ata' = [ata EXCEPT !.i = 0, !.ports = Append(@, << "status_reg", 0 >>)]
       /\ pc' = IF ata.words = SectorWords THEN "return" ELSE "data"

\* Bus::busy_loop: wait(), four reads of the alternate status, then reads
\* of the status register while it shows BSY
busy_loop ==
    \/ /\ pc = "wait" /\ ata.i < 4
       /\ ata' = [ata EXCEPT !.i = @ + 1, !.ports = Append(@, << "alt_status_reg", 0 >>)]
       /\ UNCHANGED pc
    \/ /\ pc = "wait" /\ ata.i = 4
       /\ ata' = [ata EXCEPT !.i = 0] /\ pc' = "is_busy"
    \/ /\ pc = "is_busy" /\ ata.busy > 0
       /\ ata' = [ata EXCEPT !.busy = @ - 1, !.ports = Append(@, << "status_reg", 128 >>)]
       /\ UNCHANGED pc
    \/ /\ pc = "is_busy" /\ ~ShowsBusy
       /\ ata' = [ata EXCEPT !.ports = Append(@, << "status_reg", 0 >>)]
       /\ pc' = IF ata.words = SectorWords THEN "return" ELSE "data"

\* Drive::read / Drive::write: BUSES.lock(), then Bus::read / Bus::write
BusCommand ==
    /\ Running
    /\ \/ /\ pc = "ata_done" /\ calls < MaxCommands /\ Lock("BUSES", "main")
          /\ \E cmd \in { "read", "write" }, k \in 1..Len(ata.drives), block \in PortBlocks,
                device \in PortDevices :
                 ata' = [ata EXCEPT !.cmd = cmd, !.drive = ata.drives[k].drive_index,
                                    !.lba = block, !.device = device, !.busy = device.busy,
                                    !.i = 0, !.words = 0, !.ports = << >>,
                                    !.result = "none"]
          /\ pc' = "setup" /\ calls' = calls + 1
       \/ /\ pc = "setup" /\ Len(ata.ports) < Len(setup(ata.drive, ata.lba))
          /\ ata' = [ata EXCEPT
                 !.ports = Append(@, setup(ata.drive, ata.lba)[Len(ata.ports) + 1])]
          /\ UNCHANGED << pc, locks, calls >>
       \/ /\ pc = "setup" /\ Len(ata.ports) = Len(setup(ata.drive, ata.lba))
          /\ ata' = [ata EXCEPT !.ports = Append(@, << "command_reg", CommandByte(ata.cmd) >>)]
          /\ pc' = "wait" /\ UNCHANGED << locks, calls >>
       \/ busy_loop /\ UNCHANGED << locks, calls >>
       \/ /\ pc = "data" /\ ata.words < SectorWords
          /\ ata' = [ata EXCEPT !.words = @ + 1,
                                !.ports = Append(@, << "data_reg", ata.words >>),
                                !.busy = IF ata.words + 1 = SectorWords /\ ata.cmd = "write"
                                         THEN ata.device.flush ELSE @]
          /\ pc' = IF ata.words + 1 < SectorWords THEN "data"
                   ELSE IF ata.cmd = "write" THEN "wait" ELSE "return"
          /\ UNCHANGED << locks, calls >>
       \/ /\ pc = "return" /\ Unlock("BUSES")
          /\ ata' = [ata EXCEPT !.cmd = "none", !.result = "Some"]
          /\ pc' = "ata_done" /\ UNCHANGED calls
    /\ UNCHANGED << DRIVES, mounted, drive_index, entry_sector, entry_table, PATH, panicked,
                    last, made, enabled, irq, requesting, chars, chars_len, new_len,
                    new_char, result_len, halted, boot, TICKS, timer_irqs, rtc, now >>

\* ata::init has returned with the drives it found
PortStart ==
    /\ DRIVES = << >>
    /\ mounted = FALSE
    /\ drive_index = 0
    /\ entry_sector = 0
    /\ PATH = << >>
    /\ entry_table = FileTableSector_new(0)
    /\ panicked = FALSE
    /\ calls = 0
    /\ last = NoCall
    /\ made = [p \in DirPaths |-> -1]
    /\ Machine("ata_done", TRUE)
    /\ boot = SubSeq(BootOrder, 1, 7)
    /\ TICKS = 0
    /\ timer_irqs = 0
    /\ rtc = Registers(0, 0, 0, 1, 1, 1, 0, 6)
    /\ now = NoTime
    /\ \E drives \in PortDrives :
           ata = [cmd |-> "none", drive |-> 0, device |-> Absent, busy |-> 0, i |-> 0,
                  words |-> 0, result |-> "none", block |-> << >>, drives |-> drives,
                  lba |-> 0, ports |-> << >>]

PortNext == BusCommand

\* the CPU goes on with a command once it is in it
SpecPort == PortStart /\ [][PortNext]_vars /\ WF_vars(BusCommand)

----------------------------------------------------------------------------
(* The FileSystem called directly: write_file, create_dir, delete_file and  *)
(* delete_dir on any of the paths a, b and a/b of a formatted drive, the    *)
(* parent directory there or not.                                           *)

ApiInit == InitWith(ApiSectors)

ApiLengths == { 0, 507 }

ApiCounted == mounted /\ ~panicked /\ calls < ApiCalls /\ calls' = calls + 1

ApiWriteFile ==
    /\ ApiCounted
    /\ \E path \in Paths, len \in ApiLengths :
           WriteFileReturns(path, len, write_file(disk, entry_table, path, Content(len)))

ApiCreateDir ==
    /\ ApiCounted
    /\ \E path \in Paths :
           CreateDirReturns(path, create_dir(disk, entry_table, path),
                            IsFresh(disk, entry_table, entry_sector, path))

ApiDeleteFile ==
    /\ ApiCounted
    /\ \E path \in Paths :
           DeleteFileReturns(path, delete_file(disk, entry_table, entry_sector, path),
                             get_file(disk, entry_table, path))

ApiDeleteDir ==
    /\ ApiCounted
    /\ \E path \in Paths :
           DeleteDirReturns(path, delete_dir(disk, entry_table, entry_sector, path),
                            get_dir(disk, entry_table, path))

\* drive.find_available_sector() on the drive of the mount: what it returned
\* is kept in last.head (0 for None) and last.nofree
ApiFindSector ==
    /\ ApiCounted
    /\ last' = [NoCall EXCEPT
           !.op = "find_available_sector", !.result = "Success",
           !.nofree = (find_available_sector(disk) = None),
           !.head = IF find_available_sector(disk) = None THEN 0
                    ELSE Unwrap(find_available_sector(disk))]
    /\ UNCHANGED << DRIVES, mounted, drive_index, entry_sector, entry_table, PATH, panicked,
                    made, machine, platform >>

ApiNext ==
    \/ CreateFs \/ ApiWriteFile \/ ApiCreateDir \/ ApiDeleteFile \/ ApiDeleteDir
    \/ ApiFindSector

SpecApi == ApiInit /\ [][ApiNext]_vars

----------------------------------------------------------------------------
(* The root directory filled: files fa, fb, .. written into the root one by *)
(* one until its table needs a continuation sector, files removed, and a    *)
(* directory a made and removed on the way.                                 *)

RootInit == InitWith(RootSectors)

\* the path of the k-th file of the root
RootPath(k) == << NameOfIndex(k) >>

\* wt f<k> with one byte of text, for the next k
RootFill ==
    /\ calls < RootEntries
    /\ DoWriteFile(RootPath(calls), 1)
    /\ calls' = calls + 1

\* rm f<k> for the first k whose file is there, once the head table of the
\* root is nearly full
RootDrop ==
    /\ calls >= SlotsPerTable - 1
    /\ \E k \in 0..(RootEntries - 1) :
           /\ get_file(disk, entry_table, RootPath(k)) # None
           /\ \A j \in 0..(k - 1) : get_file(disk, entry_table, RootPath(j)) = None
           /\ DoDeleteFile(RootPath(k))
    /\ UNCHANGED calls

\* mkdir a, when there is no directory a, on the fresh root or once the head
\* table of the root is nearly full
RootMakeDir ==
    /\ calls = 0 \/ calls >= SlotsPerTable - 1
    /\ get_dir(disk, entry_table, DirA) = None
    /\ DoCreateDir(DirA)
    /\ UNCHANGED calls

RootNext == CreateFs \/ RootFill \/ RootDrop \/ RootMakeDir \/ RemoveDir

SpecRoot == RootInit /\ [][RootNext]_vars

----------------------------------------------------------------------------
(* Names of every length: write_file and create_dir in the root of a       *)
(* formatted drive, the names being as long as a name field, one byte      *)
(* longer, and longer than a slot.                                          *)

NameInit == InitWith(NameSectors)

\* the lengths of the names: 1, the 58 bytes of a name field, 59, and 64
NameLengths == { 1, NameSize, NameSize + 1, SlotSize + 1 }

\* a name of n times the char c
LongName(n, c) == [i \in 1..n |-> c]

NameCounted == mounted /\ ~panicked /\ calls < NameCalls /\ calls' = calls + 1

\* write_file([name], "x")
NameWrite ==
    /\ NameCounted
    /\ \E n \in NameLengths, c \in { 97, 98 } : DoWriteFile(<< LongName(n, c) >>, 1)

\* create_dir([name])
NameMakeDir ==
    /\ NameCounted
    /\ \E n \in NameLengths, c \in { 97, 98 } : DoCreateDir(<< LongName(n, c) >>)

NameNext == CreateFs \/ NameWrite \/ NameMakeDir

SpecName == NameInit /\ [][NameNext]_vars

----------------------------------------------------------------------------
(* The claims.  Each is stated about the last call (its arguments, what it *)
(* returned, what it found before it ran) and the state it left.           *)

\* the file get_file finds at the path of the last call, and what read() gives
FoundFile == get_file(disk, entry_table, last.path)

ReadsBack(len) ==
    /\ FoundFile # None
    /\ ~File_read(disk, Unwrap(FoundFile)).panic
    /\ File_read(disk, Unwrap(FoundFile)).bytes = Content(len)

\* C1: round trip.  After write_file(p, b) returned Success on a path whose
\* parent directory existed and held no entry of the final name, get_file(p)
\* finds a file and its read() returns exactly b.
C1_RoundTrip ==
    (last.op = "write_file" /\ last.result = "Success" /\ last.fresh)
        => ReadsBack(last.len)

\* C2: replacement.  After write_file(p, b2) returned Success on a path where
\* get_file(p) already found a file, read(get_file(p)) returns b2 and the
\* parent directory lists the name exactly once.
C2_Replaces ==
    (last.op = "write_file" /\ last.result = "Success" /\ last.existed)
        => /\ ReadsBack(last.len)
           /\ CountName(disk, entry_table, entry_sector,
                        ParentPath(last.path), LastName(last.path)) = 1

\* C3: rmdir safety.  delete_dir on a directory that had a live slot in any
\* table sector of its chain returned NotEmpty and changed no sector.
C3_NotEmptyRefused ==
    (last.op = "delete_dir" /\ last.nonempty)
        => (last.result = "NotEmpty" /\ ~last.changed)

\* the table chain that starts at a sector
ChainAt(d, addr) == TableChain(d, FileTableSector_load(d, addr))

\* the head sectors of the directories a sequence of tables lists
DirHeads(tables) ==
    { FilesOf(tables)[k].entry_addr :
        k \in { j \in 1..Len(FilesOf(tables)) : FilesOf(tables)[j].kind = "Dir" } }

\* the table sectors reachable from the root: the chain of the root and the
\* chain of every directory the root lists
ReachableTables ==
    AddrsOf(ChainAt(disk, entry_sector))
    \cup UNION { AddrsOf(ChainAt(disk, h)) : h \in DirHeads(ChainAt(disk, entry_sector)) }

\* C4: magic invariant.  After any sequence of completed calls every table
\* sector reachable from the root ends in "POGO", and after a successful
\* delete_dir none of the table sectors the directory had ends in it.
C4_MagicInvariant ==
    (mounted /\ ~panicked)
        => /\ \A s \in ReachableTables : HasMagic(disk[s])
           /\ (last.op = "delete_dir" /\ last.result = "Success")
                  => \A s \in last.removed : ~HasMagic(disk[s])

\* the head sector of the directory a path names when every component names
\* a directory inside the directory reached so far, 0 when one does not
RECURSIVE DirHeadOf(_)
DirHeadOf(path) ==
    IF path = <<>> THEN entry_sector
    ELSE LET up == DirHeadOf(ParentPath(path))
             hits == IF up = 0 THEN <<>>
                     ELSE SelectSeq(FilesOf(ChainAt(disk, up)),
                              LAMBDA el : el.kind = "Dir" /\ el.name = LastName(path))
         IN IF hits = <<>> THEN 0 ELSE Head(hits).entry_addr

\* every non-final component names a directory inside the directory reached
\* so far and the final one names an entry of the kind in the last directory
NamesEntry(path, kind) ==
    /\ DirHeadOf(ParentPath(path)) # 0
    /\ \E k \in 1..Len(FilesOf(ChainAt(disk, DirHeadOf(ParentPath(path))))) :
           /\ FilesOf(ChainAt(disk, DirHeadOf(ParentPath(path))))[k].kind = kind
           /\ FilesOf(ChainAt(disk, DirHeadOf(ParentPath(path))))[k].name = LastName(path)

\* C5: lookups.  get_file(path) and get_dir(path) return an entry only if
\* every non-final component names a directory inside the directory reached
\* so far and the final component names an entry of the requested type there.
C5_LookupSound ==
    (mounted /\ ~panicked)
        => \A path \in Paths :
               /\ get_file(disk, entry_table, path) # None => NamesEntry(path, "File")
               /\ get_dir(disk, entry_table, path) # None => NamesEntry(path, "Dir")

\* C6: idempotent delete.  delete_file on a file get_file finds returns
\* Success; the same delete_file called again right after returns NotFound
\* and changes no sector.
C6_IdempotentDelete ==
    /\ (last.op = "delete_file" /\ last.existed /\ ~last.repeat)
           => last.result = "Success"
    /\ (last.op = "delete_file" /\ last.repeat)
           => (last.result = "NotFound" /\ ~last.changed)

CeilDiv(a, b) == (a + b - 1) \div b

Max(a, b) == IF a > b THEN a ELSE b

\* the data chain that starts at the head the last write_file allocated
HeadChain == DataChain(disk, DataSector_load(disk, last.head))

\* the chain has n sectors, all but the last of 506 bytes, the last of the rest of L
ChainOf(n, L) ==
    /\ Len(HeadChain) = n
    /\ \A k \in 1..n :
           HeadChain[k].size = IF k < n THEN PayloadSize ELSE L - PayloadSize * (n - 1)

\* C8 as stated: write_file of L bytes produces a chain of exactly ceil(L/506)
\* data sectors plus one directory slot, every sector but the last of 506
\* bytes and the last of the remainder.
C8_ChainMinimal ==
    (last.op = "write_file" /\ last.result = "Success")
        => (ChainOf(CeilDiv(last.len, PayloadSize), last.len) /\ last.slot_ok)

\* C8, amended: write_file of L bytes writes one directory slot whose address
\* is the head sector it allocated, and the chain from that head has
\* ceil(L/506) sectors when L >= 1 and one sector of length 0 when L = 0;
\* every sector but the last carries 506 bytes and the last the remainder.
C8_ChainMinimalOrHead ==
    (last.op = "write_file" /\ last.result = "Success")
        => (ChainOf(Max(1, CeilDiv(last.len, PayloadSize)), last.len) /\ last.slot_ok)

\* a write_file of 1000 bytes that left a chain of two sectors, 506 and 494
C8_Witness ==
    /\ last.op = "write_file" /\ last.result = "Success" /\ last.len = 1000
    /\ last.slot_ok
    /\ Len(HeadChain) = 2 /\ HeadChain[1].size = 506 /\ HeadChain[2].size = 494

\* C9: chain growth.  A directory in which n entries were created and none
\* deleted has a table chain of ceil(n/8) sectors (one when n <= 8), and a
\* successful delete never leaves the chain of the parent shorter than it was.
C9_ChainGrowth ==
    (mounted /\ ~panicked)
        => /\ \A p \in DirPaths :
                  (made[p] >= 0 /\ DirExists(disk, entry_table, p))
                      => ChainLen(disk, entry_table, entry_sector, p)
                             = Max(1, CeilDiv(made[p], SlotsPerTable))
           /\ (last.op \in {"delete_file", "delete_dir"} /\ last.result = "Success")
                  => ChainLen(disk, entry_table, entry_sector, ParentPath(last.path))
                         >= last.chain_before

\* C10: allocation failure.  write_file and create_dir called on an existing
\* parent directory when no all-zero sector is left return the Error exit
\* code and do not panic.
C10_AllocFailureReported ==
    (last.op \in {"write_file", "create_dir"} /\ last.parent /\ last.nofree)
        => (last.result = "Error" /\ ~panicked)

\* the names list_files is to yield for a sequence of live slots
Listing(files) ==
    [k \in 1..Len(files) |->
        IF files[k].kind = "Dir" THEN files[k].name \o << 47 >> ELSE files[k].name]

C12_NamesUnique ==
    (mounted /\ ~panicked)
        => \A p \in DirPaths :
               DirExists(disk, entry_table, p)
                   => \A k \in 1..Len(Entries(disk, entry_table, entry_sector, p)) :
                          CountName(disk, entry_table, entry_sector, p,
                              Entries(disk, entry_table, entry_sector, p)[k].name) = 1

\* The chain of continuation fields from addr stays on the drive and reaches
\* a sector whose continuation field is 0 within n sectors; with n the number
\* of sectors of the drive that is: it visits no sector twice and ends
RECURSIVE ChainEnds(_, _, _)
ChainEnds(d, addr, n) ==
    /\ addr \in DOMAIN d
    /\ n > 0
    /\ \/ ReadBe32(d[addr], 0) = 0
       \/ ChainEnds(d, ReadBe32(d[addr], 0), n - 1)

\* The table chain at head ends, and so does, down to depth levels of
\* directories below it, the chain of every live slot of it
RECURSIVE TreeEnds(_, _, _)
TreeEnds(d, head, depth) ==
    /\ ChainEnds(d, head, DriveSectors(d))
    /\ depth > 0
           => \A k \in 1..Len(FilesOf(ChainAt(d, head))) :
                  IF FilesOf(ChainAt(d, head))[k].kind = "File"
                  THEN ChainEnds(d, FilesOf(ChainAt(d, head))[k].entry_addr, DriveSectors(d))
                  ELSE TreeEnds(d, FilesOf(ChainAt(d, head))[k].entry_addr, depth - 1)

\* C13: chains are acyclic.  After any sequence of calls the table chain of
\* every directory and the data chain of every file reachable from the root
\* (here: the root, its entries and the entries of its directories) visits
\* no sector twice and ends at a sector whose continuation field is 0.
C13_ChainsEnd ==
    (mounted /\ ~panicked) => TreeEnds(disk, entry_sector, 2)

\* C14: root persistence.  Once a filesystem is mounted, after any sequence
\* of calls the sector at sector_count-1 of the drive is still a directory
\* table with the "POGO" magic, and is not a sector the allocator hands out.
C14_RootPersists ==
    (mounted /\ ~panicked)
        => /\ entry_sector = DriveSectors(disk) - 1
           /\ HasMagic(disk[entry_sector])
           /\ find_available_sector(disk) # Some(entry_sector)

\* C15: while no filesystem is mounted is_mounted() is false, and every
\* filesystem command of the shell (cd, ls, mkdir, wt, rt, rename, rm, rmdir)
\* returns NotMounted and leaves every sector of every drive, the mount and
\* the shell's path as they were.
C15_NotMounted ==
    [][(~mounted /\ last'.op \in FsCommands)
          => /\ ~is_mounted
             /\ last'.result = "NotMounted"
             /\ UNCHANGED << DRIVES, mounted, drive_index, entry_sector, entry_table,
                             PATH, panicked >>]_vars

\* wt typed in diskless mode with two drives on the bus
C15_Witness ==
    /\ ~mounted /\ Len(DRIVES) = 2
    /\ last.op = "wt" /\ last.result = "NotMounted"

\* byte k of a 32-bit value (k = 0 the least significant), read off its
\* binary expansion; a value of 2^31 or more is held as that value minus 2^32
ByteOf(a, k) ==
    IF a >= 0 THEN (a \div (256 ^ k)) % 256
    ELSE ((((a + 2147483647) + 1) \div (256 ^ k)) % 256) + (IF k = 3 THEN 128 ELSE 0)

MsbFirst(a) == << ByteOf(a, 3), ByteOf(a, 2), ByteOf(a, 1), ByteOf(a, 0) >>

\* C16: a non-zero sector address stored in the continuation field of a
\* table or of a data sector, or in the entry_addr field of a slot, is on
\* the disk most significant byte first, and a reload of the sector decodes
\* exactly that address.
C16_Endianness ==
    /\ last.op = "set_continuation" =>
           /\ SubSeq(Drive_read(disk, entry_sector), 1, 4) = MsbFirst(last.head)
           /\ FileTableSector_load(disk, entry_sector).continuation_addr = Some(last.head)
    /\ last.op \in { "add_file", "add_dir" } =>
           /\ SubSeq(Drive_read(disk, entry_sector),
                     4 + last.len * SlotSize + 60, 4 + last.len * SlotSize + 63)
                  = MsbFirst(last.head)
           /\ Len(FileTableSector_load(disk, entry_sector).files) = last.len + 1
           /\ FileTableSector_load(disk, entry_sector).files[last.len + 1].entry_addr
                  = last.head
    /\ last.op = "extend" =>
           /\ SubSeq(Drive_read(disk, 0), 1, 4) = MsbFirst(last.head)
           /\ DataSector_load(disk, 0).continuation_addr = Some(last.head)

\* 0x01020304 has just been stored as the continuation of a table whose
\* second slot holds 0xFFFFFFFF, beside a data sector continued at 0x80000000
C16_Witness ==
    /\ last.op = "set_continuation" /\ last.head = 16909060
    /\ SubSeq(Drive_read(disk, entry_sector), 1, 4) = << 1, 2, 3, 4 >>
    /\ Len(entry_table.files) = 2 /\ entry_table.files[2].entry_addr = -1
    /\ DataSector_load(disk, 0).continuation_addr = Some(-2147483647 - 1)
\* the lock the running handler takes next, if its next step takes one
SpinsOn ==
    CASE irq.vector = "keyboard" /\ irq.pc = "entry" -> "KEYBOARD"
      [] irq.pc = "requesting" -> "requesting"
      [] irq.pc = "chars" -> "chars"
      [] irq.pc = "print" -> "WRITER"
      [] irq.pc = "eoi" -> "PICS"
      [] OTHER -> "none"

\* the running handler spins on a lock held by the code it interrupted
Spinning == irq.vector # "none" /\ SpinsOn # "none" /\ locks[SpinsOn] = "main"

\* C19: no lock the keyboard handler takes (stdin chars, stdin requesting,
\* the VGA writer, the PIC) is held by the main line while interrupts are
\* enabled, so a keyboard interrupt never spins on a lock held by the code
\* it interrupted.
C19_CriticalSections ==
    /\ \A l \in { "chars", "requesting", "WRITER", "PICS" } :
           locks[l] = "main" => ~enabled
    /\ ~Spinning

\* C20: every invocation of the timer handler and of the keyboard handler
\* eventually sends exactly one end-of-interrupt, for its own vector, before
\* it returns.
C20_EndOfInterrupt ==
    /\ [](irq.pc = "ret" => irq.eoi = << irq.vector >>)
    /\ [](irq.pc \notin { "ret", "none" } => irq.eoi = << >>)
    /\ \A vector \in { "timer", "keyboard" } :
           (irq.vector = vector /\ irq.pc = "entry")
               ~> (irq.vector = vector /\ irq.pc = "ret" /\ irq.eoi = << vector >>)

\* the position in DRIVES of the first drive whose last sector ends in "POGO"
FirstSigned ==
    CHOOSE k \in 1..Len(DRIVES) :
        /\ HasSignature(DRIVES[k])
        /\ \A j \in 1..(k - 1) : ~HasSignature(DRIVES[j])

\* C17: mount discovery.  After detect_fs, the user not formatting, a
\* filesystem is mounted iff the last sector of some detected drive has "POGO"
\* in bytes 508..512; the mount is then on the first such drive in detection
\* order, entry_sector is its sector_count-1 and entry_table is the parse of
\* that sector.
C17_MountDiscovery ==
    (last.op = "detect_fs" /\ last.result # "Formatted")
        => /\ mounted <=> (\E k \in 1..Len(DRIVES) : HasSignature(DRIVES[k]))
           /\ mounted
                  => /\ drive_index + 1 = FirstSigned
                     /\ entry_sector = DriveSectors(DRIVES[FirstSigned].blocks) - 1
                     /\ entry_table
                            = ParseTable(entry_sector,
                                         DRIVES[FirstSigned].blocks[entry_sector])

\* C18: format.  After a confirmed format of a drive of N sectors, sector N-1
\* of that drive is a directory table with no entry, continuation 0 and the
\* "POGO" magic, the filesystem is mounted on that drive with entry_sector
\* N-1, and list_files of the empty path returns the empty list.
C18_Format ==
    ((last.op = "detect_fs" /\ last.result = "Formatted") \/ last.op = "create_fs")
        => /\ mounted
           /\ \A k \in 1..Len(DRIVES) : HasSignature(DRIVES[k]) <=> (k = drive_index + 1)
           /\ entry_sector = DriveSectors(disk) - 1
           /\ HasMagic(disk[entry_sector])
           /\ ReadBe32(disk[entry_sector], 0) = 0
           /\ LoadSlots(disk[entry_sector], 0) = << >>
           /\ list_files(disk, entry_table, << >>) = Some(<< >>)

\* the second of two drives formatted, a drive that had been in use: its old
\* data sector is still there below the new root
C18_Witness ==
    /\ last.op = "detect_fs" /\ last.result = "Formatted"
    /\ mounted /\ drive_index = 1 /\ Len(DRIVES) = 2
    /\ DriveSectors(disk) = BootSectors + 1
    /\ disk[entry_sector - 1] # ZeroSector
    /\ LoadSlots(disk[entry_sector], 0) = << >>

\* RDY is set at a poll within the limit at which ERR is not yet set
RdyBeforeErr(device) ==
    /\ device.rdy.ever /\ device.rdy.at < PollLimit
    /\ device.err.ever => device.rdy.at < device.err.at

\* C21: identify_drive returns a 256-word block iff the status register is
\* non-zero after the command, LBA1 and LBA2 both read 0 once BSY clears, and
\* RDY is observed before ERR within the poll limit; otherwise it returns
\* absent and has read no word from the data port.
C21_IdentifyResult ==
    pc = "id_return" =>
        /\ ata.result = "Some" <=>
               /\ ata.device.present
               /\ ata.device.lba = << 0, 0 >>
               /\ RdyBeforeErr(ata.device)
        /\ ata.result = "Some" => ata.words = SectorWords /\ Len(ata.block) = SectorWords
        /\ ata.result # "Some" => ata.result = "None" /\ ata.words = 0

\* a drive whose RDY shows at the last poll of the limit has identified
C21_Witness ==
    /\ pc = "id_return" /\ ata.result = "Some" /\ ata.words = SectorWords
    /\ ata.device.rdy = Bit(TRUE, PollLimit - 1) /\ ata.device.busy = 1

\* C22 as stated: for every device behaviour, a device that never sets RDY
\* or ERR included, identify_drive polls at most 256 times and terminates.
C22_IdentifyTerminates ==
    /\ [](ata.i <= PollLimit)
    /\ (ata.cmd = "identify") ~> (pc = "id_return")

\* C22 amended: identify_drive polls for RDY at most 256 times and then
\* gives up, so it terminates for every device whose BSY clears after the
\* command, a device that never sets RDY or ERR included.
C22_IdentifyBounded ==
    /\ [](ata.i <= PollLimit)
    /\ [](pc = "id_return" /\ ata.i = PollLimit => ata.result = "None")
    /\ (ata.cmd = "identify" /\ ~ata.device.stuck) ~> (pc = "id_return")

\* a device that never sets RDY or ERR: identify_drive gave up at poll 256
C22_Witness ==
    /\ pc = "id_return" /\ ata.result = "None" /\ ata.i = PollLimit
    /\ ~ata.device.rdy.ever /\ ~ata.device.err.ever

\* where the main line is at a port access of identify, read or write
PortAccess ==
    { "identify", "id_status", "id_busy", "id_lba", "id_poll", "id_data",
      "transfer", "busy_loop", "data", "last_busy_loop" }

\* C23: every port access of an identify, read or write happens while the
\* issuing code holds the bus lock, which it holds from the first register
\* write of the command until the transfer and the last busy-wait are done.
C23_BusLocked ==
    (pc \in PortAccess \/ ata.cmd # "none") => locks["BUSES"] = "main"

\* a write whose 256 words are out and whose last busy-wait is running
C23_Witness ==
    /\ pc = "last_busy_loop" /\ ata.cmd = "write" /\ ata.words = SectorWords
    /\ locks["BUSES"] = "main"

\* the chars of words from .. to - 1, of each word the high byte first
RECURSIVE HighLow(_, _, _)
HighLow(buf, from, to) ==
    IF from >= to THEN << >>
    ELSE << buf[from + 1] \div 256, buf[from + 1] % 256 >> \o HighLow(buf, from + 1, to)

\* str without the spaces before its first and after its last other char
TrimSpaces(str) ==
    LET kept == { k \in 1..Len(str) : str[k] # 32 }
    IN IF kept = {} THEN << >>
       ELSE SubSeq(str, CHOOSE k \in kept : \A j \in kept : k <= j,
                        CHOOSE k \in kept : \A j \in kept : k >= j)

\* C28: for every drive that identifies, the sector count recorded is
\* (words[61] << 16) | words[60], and serial and model are the chars of
\* words 10..20 and 27..47, high byte then low byte, spaces trimmed.
C28_IdentifyParsing ==
    (ata.block # << >> /\ ata.result = "none") =>
        /\ ata.drives # << >>
        /\ ata.drives[Len(ata.drives)].serial = TrimSpaces(HighLow(ata.block, 10, 20))
        /\ ata.drives[Len(ata.drives)].model = TrimSpaces(HighLow(ata.block, 27, 47))
        /\ ata.drives[Len(ata.drives)].sectors =
               (IF ata.block[62] >= 32768 THEN ata.block[62] - 65536 ELSE ata.block[62])
                   * 65536 + ata.block[61]

\* both drives identified: serial "ABCDEF" with 6 sectors, then serial
\* "QM00001", model "A B" with 0x00010002 sectors
C28_Witness ==
    /\ Len(ata.drives) = 2 /\ pc = "ata_done"
    /\ ata.drives[1].serial = << 65, 66, 67, 68, 69, 70 >> /\ ata.drives[1].sectors = 6
    /\ ata.drives[2].serial = << 81, 77, 48, 48, 48, 48, 49 >>
    /\ ata.drives[2].model = << 65, 32, 66 >> /\ ata.drives[2].sectors = 65538


\* C24: lib::init completes its steps in the order GDT/TSS, IDT, PIC,
\* interrupt enable, PIT, heap, ATA identification, filesystem detection;
\* interrupts are enabled, and a handler runs, only once the IDT is loaded
\* and the PICs are initialised; the drives are identified and the
\* filesystem is detected only once the heap is initialised
C24_InitOrder ==
    /\ boot = SubSeq(<< "gdt", "idt", "pics", "enable", "time", "heap", "ata", "detect_fs" >>,
                     1, Len(boot))
    /\ enabled \/ irq.vector # "none" =>
           \E i, j \in 1..Len(boot) : boot[i] = "idt" /\ boot[j] = "pics"
    /\ \A i \in 1..Len(boot) :
           boot[i] \in { "ata", "detect_fs" } => \E j \in 1..(i - 1) : boot[j] = "heap"

\* init has run to its end, a timer interrupt was handled on the way, and
\* the console waits for a key
C24_Witness == Len(boot) = 8 /\ boot[8] = "detect_fs" /\ pc = "get_char" /\ TICKS > 0

\* C27: TICKS starts at 0; only the timer handler changes it, by adding 2;
\* it is twice the number of timer interrupts handled, hence even, and it
\* never decreases
C27_TickCounter ==
    /\ TICKS = 0
    /\ [](TICKS = 2 * timer_irqs /\ TICKS % 2 = 0)
    /\ [][/\ TICKS' >= TICKS
          /\ TICKS' # TICKS => irq.vector = "timer" /\ TICKS' = TICKS + 2]_vars

\* the counter after the last timer interrupt of the run
C27_Witness == timer_irqs = MaxTicks /\ TICKS = 2 * MaxTicks /\ irq.vector = "none"

\* the hour DateTime::get holds after its BCD stage, from the hour register
DecodedHour ==
    IF (rtc[8] \div 4) % 2 = 0
    THEN ((rtc[3] % 128) % 16) + ((rtc[3] % 128) \div 16) * 10 + (rtc[3] \div 128) * 128
    ELSE rtc[3]

\* C25: in 12-hour mode (register B bit 1 clear) DateTime::get returns
\* ((hour & 0x7F) + 12) % 24 for an hour whose high bit is set and the hour
\* unchanged for an hour whose high bit is clear; every hour it returns is
\* in 0..23
C25_HourConversion ==
    pc = "execute" /\ now.raw_values # << >> =>
        /\ (rtc[8] \div 2) % 2 = 0 /\ DecodedHour >= 128 =>
               now.result.hour = ((DecodedHour % 128) + 12) % 24
        /\ (rtc[8] \div 2) % 2 = 0 /\ DecodedHour < 128 => now.result.hour = DecodedHour
        /\ now.result.hour \in 0..23

\* C26: with register B bit 2 clear, the BCD stage of DateTime::get turns
\* second, minute, day, month and year into (v & 0x0F) + (v >> 4) * 10 and
\* the hour into the same on its low 7 bits with bit 7 kept, and second,
\* minute, day, month and year are returned so; with bit 2 set the stage
\* leaves every value as read and they are returned as read
C26_BcdDecoding ==
    /\ pc = "date_hour" =>
           /\ \A i \in { 1, 2, 5, 6, 7 } :
                  now.raw_values[i] = IF (rtc[8] \div 4) % 2 = 0
                                      THEN (rtc[i] % 16) + (rtc[i] \div 16) * 10
                                      ELSE rtc[i]
           /\ now.raw_values[3] = DecodedHour
           /\ now.raw_values[4] = rtc[4]
    /\ pc = "execute" /\ now.raw_values # << >> =>
           LET decoded(v) == IF (rtc[8] \div 4) % 2 = 0
                             THEN (v % 16) + (v \div 16) * 10 ELSE v
           IN  /\ now.result.second = decoded(rtc[1])
               /\ now.result.minute = decoded(rtc[2])
               /\ now.result.day = decoded(rtc[5])
               /\ now.result.month = decoded(rtc[6])
               /\ now.result.year = decoded(rtc[7])
               /\ now.result.weekday = rtc[4]

\* the BCD stage has decoded 0x59 seconds to 59, year 0x99 to 99 and a PM
\* hour of the 12-hour clock
C26_Witness ==
    /\ pc = "date_hour" /\ rtc[8] = 0
    /\ rtc[1] = 89 /\ now.raw_values[1] = 59
    /\ rtc[7] = 153 /\ now.raw_values[7] = 99
    /\ rtc[3] = 146 /\ now.raw_values[3] = 140

\* the entry addresses of the live slots of a directory, in chain order
AddressesIn(path) ==
    IF DirExists(disk, entry_table, path)
    THEN [k \in 1..Len(Entries(disk, entry_table, entry_sector, path)) |->
             Entries(disk, entry_table, entry_sector, path)[k].entry_addr]
    ELSE << >>

\* C29: allocation freshness.  After any sequence of calls, writes of
\* zero-length files included, no two live slots, of one directory or of
\* two, have the same entry address, and none has the address of the root
\* table: write_file and create_dir gave each a sector nothing referred to
C29_NoSharedSector ==
    (mounted /\ ~panicked)
        => \A p, q \in DirPaths :
               /\ \A i \in 1..Len(AddressesIn(p)) : AddressesIn(p)[i] # entry_sector
               /\ \A i \in 1..Len(AddressesIn(p)), j \in 1..Len(AddressesIn(q)) :
                      (p # q \/ i # j) => AddressesIn(p)[i] # AddressesIn(q)[j]

\* what File::read returns for each of a sequence of live slots on a disk,
\* << >> for a directory
Contents(d, files) ==
    [k \in 1..Len(files) |->
        IF files[k].kind = "File" THEN File_read(d, files[k]).bytes ELSE << >>]

\* the step from before to after a delete_file(path) took one slot, a file
\* of the final name of path, out of the parent directory of path, and left
\* every other slot of every directory, and what every other file reads, be
OnlySlotRemoved(path, before, after, was, is) ==
    \A p \in DirPaths :
        IF p = ParentPath(path)
        THEN \E k \in 1..Len(before[p]) :
                 /\ before[p][k].kind = "File" /\ before[p][k].name = LastName(path)
                 /\ after[p] = RemoveAt(before[p], k)
                 /\ is[p] = RemoveAt(was[p], k)
        ELSE after[p] = before[p] /\ is[p] = was[p]

\* the live slots of every directory of a disk, << >> where there is none
Tree(d, et, es) ==
    [p \in DirPaths |-> IF DirExists(d, et, p) THEN Entries(d, et, es, p) ELSE << >>]

\* C30: a delete_file(p) that returns Success removes exactly one slot, a
\* file named by the last component of p, from the parent directory of p:
\* every other entry of every directory keeps its name, type, entry address
\* and relative order, and every other file reads as before
C30_DeleteFrame ==
    [][(calls' # calls /\ last'.op = "delete_file" /\ last'.result = "Success")
          => OnlySlotRemoved(last'.path,
                 Tree(disk, entry_table, entry_sector),
                 Tree(disk', entry_table', entry_sector'),
                 [p \in DirPaths |-> Contents(disk, Tree(disk, entry_table, entry_sector)[p])],
                 [p \in DirPaths |->
                     Contents(disk', Tree(disk', entry_table', entry_sector')[p])])]_vars

\* C31: a write_file, create_dir, delete_file or delete_dir that returns
\* NotFound leaves every sector of every drive and the mount (entry_table,
\* entry_sector, drive_index) as they were
C31_NotFoundFrame ==
    [][(/\ calls' # calls
        /\ last'.op \in { "write_file", "create_dir", "delete_file", "delete_dir" }
        /\ last'.result = "NotFound")
          => /\ DRIVES' = DRIVES
             /\ entry_table' = entry_table
             /\ entry_sector' = entry_sector
             /\ drive_index' = drive_index
             /\ mounted' = mounted]_vars

\* write_file(a/b) has returned NotFound on a drive that holds a file and
\* no directory a
C31_Witness ==
    /\ last.op = "write_file" /\ last.path = << << 97 >>, << 98 >> >>
    /\ last.result = "NotFound"
    /\ get_file(disk, entry_table, << << 98 >> >>) # None
    /\ get_dir(disk, entry_table, << << 97 >> >>) = None

\* C32: the drive_index of a mounted filesystem is a position of the list
\* of detected drives and names the drive whose last sector carries the
\* signature; so it is for the drive_index detect_fs takes from a drive
\* with the signature, whatever positions of the bus identified: the load
\* of the root table with it does not index outside the list
C32_DriveIndexValid ==
    /\ mounted => /\ drive_index < Len(DRIVES)
                  /\ HasSignature(DRIVES[drive_index + 1])
    /\ (last.op = "detect_fs" /\ \E k \in 1..Len(DRIVES) : HasSignature(DRIVES[k]))
           => /\ ~panicked
              /\ mounted

Repeated(n, access) == [k \in 1..n |-> access]

\* the busy-wait on a device that shows BSY to n status reads: four reads
\* of the alternate status, n status reads with BSY, one without
BusyWait(n) ==
    Repeated(4, << "alt_status_reg", 0 >>) \o Repeated(n, << "status_reg", 128 >>)
    \o << << "status_reg", 0 >> >>

\* the port accesses of a whole read or write of a block of a drive
CommandOrder(cmd, drive, block, device) ==
    << << "drive_reg", 224 + 16 * drive + ((block \div 16777216) % 16) >>,
       << "sector_count_reg", 1 >>,
       << "lba0_reg", block % 256 >>,
       << "lba1_reg", (block \div 256) % 256 >>,
       << "lba2_reg", (block \div 65536) % 256 >>,
       << "command_reg", IF cmd = "read" THEN 32 ELSE 48 >> >>
    \o BusyWait(device.busy)
    \o [k \in 1..SectorWords |-> << "data_reg", k - 1 >>]
    \o (IF cmd = "write" THEN BusyWait(device.flush) ELSE << >>)

BusyReads ==
    Cardinality({ k \in 1..Len(ata.ports) : ata.ports[k] = << "status_reg", 128 >> })

\* the device holds BSY for ever in a busy-wait of the command
Wedged ==
    \/ ata.device.stuck = "command"
    \/ ata.device.stuck = "flush" /\ ata.cmd = "write"

\* C35: read and write poll without limit: a command returns only after
\* the device has shown BSY clear, after as many status reads as the device
\* kept BSY, once after the command and for a write once more after the
\* data words; it returns whenever the device clears BSY in the end, and
\* never when the device holds BSY for ever
C35_NoPollLimit ==
    /\ [](pc = "return"
            => /\ ~Wedged
               /\ BusyReads = ata.device.busy
                                  + (IF ata.cmd = "write" THEN ata.device.flush ELSE 0))
    /\ (pc = "setup" /\ ~Wedged) ~> (pc = "return")
    /\ [](pc \in { "setup", "wait", "is_busy", "data" } /\ Wedged => [](pc # "return"))

\* a write returns from a device that showed BSY to 257 status reads after
\* the command and to one more after the data words
C35_Witness ==
    /\ pc = "return" /\ ata.cmd = "write"
    /\ ata.device.busy = PollLimit + 1 /\ ata.device.flush = 1
    /\ BusyReads = PollLimit + 2

\* the sectors of the mounted drive, sector 0 apart, whose 512 bytes are zero
ZeroSectors == { s \in 1..(DriveSectors(disk) - 1) : \A k \in 1..SectorSize : disk[s][k] = 0 }

\* C36: find_available_sector returns the largest address from 1 to
\* sector_count - 1 whose 512 bytes are all zero, None when there is none,
\* never address 0, and it leaves the disk as it is
C36_FindAvailable ==
    /\ [](last.op = "find_available_sector"
            => IF ZeroSectors = {} THEN last.nofree
               ELSE /\ ~last.nofree
                    /\ last.head \in ZeroSectors
                    /\ \A s \in ZeroSectors : s <= last.head)
    /\ [][last'.op = "find_available_sector" => DRIVES' = DRIVES]_vars

\* the scan found nothing on a drive whose sector 0 alone is all zero
C36_Witness ==
    /\ last.op = "find_available_sector" /\ last.nofree /\ last.head = 0
    /\ disk[0] = ZeroSector
    /\ \A s \in 1..(DriveSectors(disk) - 1) : disk[s] # ZeroSector

\* the live slots, of any directory, whose entry address is addr
SlotsAt(addr) ==
    { << p, k >> \in DirPaths \X (1..(SlotsPerTable * Sectors)) :
          k <= Len(AddressesIn(p)) /\ AddressesIn(p)[k] = addr }

\* C37: create_dir(p) on an existing parent without an entry of the final
\* name returns Success; then get_dir(p) finds a directory whose head table
\* is a sector allocated for it alone, with the "POGO" magic and no entry,
\* list_files(p) is empty, and the listing of the parent has the name
\* followed by '/'
C37_CreateDir ==
    (last.op = "create_dir" /\ last.parent /\ last.fresh)
        => /\ last.result = "Success"
           /\ get_dir(disk, entry_table, last.path) # None
           /\ Unwrap(get_dir(disk, entry_table, last.path)).entry_addr = last.head
           /\ Cardinality(SlotsAt(last.head)) = 1
           /\ HasMagic(disk[last.head])
           /\ FileTableSector_load(disk, last.head).files = << >>
           /\ list_files(disk, entry_table, last.path) = Some(<< >>)
           /\ list_files(disk, entry_table, ParentPath(last.path)) # None
           /\ \E k \in 1..Len(Unwrap(list_files(disk, entry_table, ParentPath(last.path)))) :
                  Unwrap(list_files(disk, entry_table, ParentPath(last.path)))[k]
                      = LastName(last.path) \o << 47 >>


\* what get_str has to return for the characters accepted so far: its length
\* once the characters of s from the k-th on, up to the first newline, are
\* applied to a string of length n
RECURSIVE LineLen(_, _, _)
LineLen(s, k, n) ==
    IF k > Len(s) \/ s[k] = "newline"
    THEN n
    ELSE LineLen(s, k + 1, IF s[k] # "backspace" THEN n + 1
                           ELSE IF n > 0 THEN n - 1 ELSE 0)

\* C38: when get_str has seen its newline, the string it returns is the
\* sequence of characters the keyboard handler accepted since get_str began,
\* each backspace removing the last kept character, up to the first newline:
\* no accepted character is dropped or returned twice, whatever the
\* interleaving of keyboard interrupts with get_char.
C38_InputNotLost ==
    pc = "clear_end"
        => /\ chars # << >>
           /\ chars[Len(chars)] = "newline"
           /\ result_len = LineLen(chars, 1, 0)

\* C39: a successful write_file or create_dir in the root adds one slot to
\* the root's table sector, and that slot reloads from the disk with the type
\* written (File for write_file, Dir for create_dir) and the entry address
\* written, whatever the length of the name; every slot the sector had
\* before reloads as it did before.
C39_SlotReload ==
    [][(/\ last'.op \in { "write_file", "create_dir" }
        /\ last'.result = "Success"
        /\ Len(last'.path) = 1
        /\ Len(FileTableSector_load(disk, entry_sector).files) < SlotsPerTable)
           => /\ Len(FileTableSector_load(disk', entry_sector').files)
                    = Len(FileTableSector_load(disk, entry_sector).files) + 1
              /\ LET after == FileTableSector_load(disk', entry_sector').files
                 IN /\ after[Len(after)].kind
                          = (IF last'.op = "write_file" THEN "File" ELSE "Dir")
                    /\ after[Len(after)].entry_addr = last'.head
              /\ \A k \in 1..Len(FileTableSector_load(disk, entry_sector).files) :
                     FileTableSector_load(disk', entry_sector').files[k]
                         = FileTableSector_load(disk, entry_sector).files[k]]_vars

\* the sectors of the drives, but for the last sector of the drive at
\* position index of drives, are in after what they are in drives
OnlyRootWritten(drives, after, index) ==
    /\ Len(after) = Len(drives)
    /\ \A i \in 1..Len(drives) :
           /\ after[i].drive_index = drives[i].drive_index
           /\ DOMAIN after[i].blocks = DOMAIN drives[i].blocks
           /\ \A b \in DOMAIN drives[i].blocks :
                  (i # index + 1 \/ b # DriveSectors(drives[i].blocks) - 1)
                      => after[i].blocks[b] = drives[i].blocks[b]

\* C40: when detect_fs finds no signature and asks, a sector is written or a
\* filesystem mounted only if the user answered 'y', then ended the drive
\* prompt with a digit below the number of detected drives, then confirmed
\* with 'y'; what is written then is the root sector, the last sector of the
\* drive chosen, and the mount is on that drive.  If the last key typed is
\* 'x' at the drive prompt or anything but 'y' at a prompt, no sector is
\* written and nothing is mounted.
C40_FormatOnlyConfirmed ==
    [][(last'.op = "detect_fs" /\ last'.path # << >> /\ last'.path[1] # << >>)
          => /\ (DRIVES' # DRIVES \/ mounted')
                    => /\ Len(last'.path[1]) >= 3
                       /\ last'.path[1][1] = 121
                       /\ last'.path[1][Len(last'.path[1])] = 121
                       /\ last'.path[1][Len(last'.path[1]) - 1] \in 48..(47 + Len(DRIVES))
                       /\ mounted'
                       /\ drive_index' = last'.path[1][Len(last'.path[1]) - 1] - 48
                       /\ entry_sector' = DriveSectors(disk') - 1
                       /\ Drive_read(disk', entry_sector') = NewTableBuf
                       /\ OnlyRootWritten(DRIVES, DRIVES', drive_index')
             /\ last'.path[1][Len(last'.path[1])] # 121
                    => DRIVES' = DRIVES /\ ~mounted']_vars

\* the user answered 'y', typed '2' with two drives detected, was asked
\* again, typed '1' and confirmed: drive 1 is formatted and mounted
C40_Witness ==
    /\ last.op = "detect_fs" /\ last.result = "Formatted"
    /\ last.path = << << 121, 50, 49, 121 >> >>
    /\ Len(DRIVES) = 2
    /\ mounted /\ drive_index = 1
    /\ Drive_read(disk, entry_sector) = NewTableBuf
====
